---- MODULE Spec2Model ----
(***************************************************************************)
(* A model of prez: the markdown template parser (src/prez/markdown.py)    *)
(* and the template data model (src/prez/templates.py).                    *)
(*                                                                         *)
(* Text is a sequence of tokens.  A token is one character ("#", "-",      *)
(* " ", "\n", ...) or a lexeme no regular expression of the parser looks   *)
(* inside ("<!--", "type:", "-->", a word, a file extension).  A Python    *)
(* str is such a sequence, a list of str a sequence of them.               *)
(*                                                                         *)
(* A value that is used more than once is handed on as the parameter of a  *)
(* local operator, so that it is written, and evaluated, once.             *)
(***************************************************************************)
EXTENDS Integers, Sequences, FiniteSets, TLC

VARIABLES
    call,      \* the method that is called: "parse_content" or "_parse_slide"
    pc,        \* "ready" before the call, "done" once it has returned or raised
    src,       \* how the input text was written: front matter block and chunks
    content,   \* the text handed to parse_content / _parse_slide
    name,      \* the fallback name handed to parse_content
    outcome,   \* "pending", "returned", or the exception type that escaped
    template,  \* the PresentationTemplate parse_content returned
    parsed,    \* what _parse_slide returned: <<>> for None, <<slide>> otherwise
    data,      \* what template.to_dict() returned: <<>> before, <<dict>> after
    restored,  \* what from_dict(data) returned: <<>> before, <<template>> after
    calls,     \* the calls made on the object so far, with their arguments
    builder,   \* the PresentationBuilder: its slide record and its document
    files,     \* the file system: what each path holds, and what was written
    printed,   \* what the command has printed
    heap       \* the mutable objects a template shares with its caller

vars == <<call, pc, src, content, name, outcome, template, parsed, data, restored,
          calls, builder, files, printed, heap>>

----------------------------------------------------------------------------
(* Bounds of the model *)

\* the chunks of a document
MaxChunks == 3

\* the body lines of a chunk
MaxBody == 3

\* the slides of a template that is built by hand
MaxSlides == 4

\* the calls made on a builder
MaxCalls == 3

\* the slides of a template that is replayed into a builder
MaxReplay == 3
MaxOps == 4

----------------------------------------------------------------------------
(* Text primitives: str methods and the regular expressions of the parser *)

NL == "\n"

\* \s of the regular expressions, and what str.strip() removes
IsSpace(c) == c \in {" ", "\n"}

\* \w+ : the word lexemes
Words == {"A", "B", "X", "Y", "a", "b", "c", "s", "x", "y", "alt", "p", "q",
          "title", "content", "image", "section", "comparison",
          "Title", "IMAGE", "Section", "Comparison", "foo", "author", "Untitled", "deck", "t", "C"}

IsWord(c) == c \in Words

MinOf(S) == CHOOSE i \in S : \A j \in S : i <= j
MaxOf(S) == CHOOSE i \in S : \A j \in S : j <= i

\* s[i-1:] with i counted from 1
Tail2(s, i) == SubSeq(s, i, Len(s))

\* str.strip()
Strip(s) ==
    LET keep == {i \in 1..Len(s) : ~IsSpace(s[i])}
    IN  IF keep = {} THEN <<>> ELSE SubSeq(s, MinOf(keep), MaxOf(keep))

\* str.lstrip('#')
LStripHash(s) ==
    LET keep == {i \in 1..Len(s) : s[i] # "#"}
    IN  IF keep = {} THEN <<>> ELSE Tail2(s, MinOf(keep))

\* str.startswith
StartsWith(s, p) == Len(s) >= Len(p) /\ SubSeq(s, 1, Len(p)) = p

\* str.split('\n')
RECURSIVE SplitLines(_)
SplitLines(s) ==
    LET nls == {i \in 1..Len(s) : s[i] = NL}
    IN  IF nls = {} THEN <<s>>
        ELSE <<SubSeq(s, 1, MinOf(nls) - 1)>> \o SplitLines(Tail2(s, MinOf(nls) + 1))

\* '\n'.join(lines)
RECURSIVE JoinLines(_)
JoinLines(ls) ==
    IF ls = <<>> THEN <<>>
    ELSE IF Len(ls) = 1 THEN ls[1]
    ELSE ls[1] \o <<NL>> \o JoinLines(Tail(ls))

\* the first index at or after i that holds no whitespace (Len(s)+1 if none)
SkipSpace(s, i) ==
    LET stop == {j \in i..Len(s) : ~IsSpace(s[j])}
    IN  IF stop = {} THEN Len(s) + 1 ELSE MinOf(stop)

\* the first index at or after i that holds no word (Len(s)+1 if none)
SkipWord(s, i) ==
    LET stop == {j \in i..Len(s) : ~IsWord(s[j])}
    IN  IF stop = {} THEN Len(s) + 1 ELSE MinOf(stop)

At(s, i, c) == i <= Len(s) /\ s[i] = c

\* a separator that needs a blank line above and below it: \n\n---\s*\n\n
SeparatorEndBlank(s, i) ==
    LET AfterRun(stop) ==
            LET nls == {j \in (i + 4)..(stop - 1) : s[j] = NL}
            IN  IF Cardinality(nls) < 2 THEN 0 ELSE MaxOf(nls) + 1
    IN  IF /\ At(s, i, NL) /\ At(s, i + 1, "-") /\ At(s, i + 2, "-") /\ At(s, i + 3, "-")
           /\ i > 1 /\ s[i - 1] = NL
        THEN AfterRun(SkipSpace(s, i + 4))
        ELSE 0

\* \n---\s*\n at index i: the index after the match, 0 when there is none.
\* \s* is greedy and gives back down to the last newline of the run.
SeparatorEnd(s, i) ==
    LET AfterRun(stop) ==
            LET nls == {j \in (i + 4)..(stop - 1) : s[j] = NL}
            IN  IF nls = {} THEN 0 ELSE MaxOf(nls) + 1
    IN  IF At(s, i, NL) /\ At(s, i + 1, "-") /\ At(s, i + 2, "-") /\ At(s, i + 3, "-")
        THEN AfterRun(SkipSpace(s, i + 4))
        ELSE 0

\* slide_separator.split(s)
RECURSIVE SplitSlides(_)
SplitSlides(s) ==
    LET CutAt(i) ==
            <<SubSeq(s, 1, i - 1)>> \o SplitSlides(Tail2(s, SeparatorEnd(s, i)))
        First(hits) == IF hits = {} THEN <<s>> ELSE CutAt(MinOf(hits))
    IN  First({i \in 1..Len(s) : SeparatorEnd(s, i) # 0})

\* frontmatter_pattern.match(s), ^---\s*\n(.*?)\n---\s*\n with DOTALL: the opening
\* \s* is greedy and gives back one newline at a time, (.*?) is lazy, so the
\* block ends at the first closing delimiter after the opening that is kept.
FrontMatter(s) ==
    LET none == [found |-> FALSE, block |-> <<>>, end |-> 1]
        Block(h, e) ==
            [found |-> TRUE, block |-> SubSeq(s, h, e - 1), end |-> SeparatorEnd(s, e)]
        Close(h, closes) == Block(h, MinOf({x \in closes : x >= h}))
        Open(opens, closes) == IF opens = {} THEN none ELSE Close(MaxOf(opens), closes)
        Scan(stop, closes) ==
            Open({h \in 5..stop : s[h - 1] = NL /\ \E e \in closes : e >= h}, closes)
    IN  IF At(s, 1, "-") /\ At(s, 2, "-") /\ At(s, 3, "-")
        THEN Scan(SkipSpace(s, 4), {e \in 1..Len(s) : SeparatorEnd(s, e) # 0})
        ELSE none

\* <!--\s*type:\s*(\w+)\s*--> at index i: the index after the match, the start
\* and the end of the word; end = 0 when there is no match at i
Directive(s, i) ==
    LET none == [end |-> 0, from |-> 0, to |-> 0]
        Close(b, c, d) ==
            IF c = b \/ ~At(s, d, "-->") THEN none
            ELSE [end |-> d + 1, from |-> b, to |-> c - 1]
        WordEnd(b, c) == Close(b, c, SkipSpace(s, c))
        Word(b) == WordEnd(b, SkipWord(s, b))
        Type(a) == IF At(s, a, "type:") THEN Word(SkipSpace(s, a + 1)) ELSE none
    IN  IF At(s, i, "<!--") THEN Type(SkipSpace(s, i + 1)) ELSE none

\* re.sub(r'<!--\s*type:\s*\w+\s*-->\s*', '', s): every match goes, with the
\* whitespace that follows it
RECURSIVE SubDirective(_)
SubDirective(s) ==
    LET CutAt(i) ==
            SubSeq(s, 1, i - 1)
            \o SubDirective(Tail2(s, SkipSpace(s, Directive(s, i).end)))
        First(hits) == IF hits = {} THEN s ELSE CutAt(MinOf(hits))
    IN  First({i \in 1..Len(s) : Directive(s, i).end # 0})

\* str.lower() of a word
Lower(w) ==
    CASE w = "Title" -> "title"
      [] w = "IMAGE" -> "image"
      [] w = "Section" -> "section"
      [] w = "Comparison" -> "comparison"
      [] w = "A" -> "a"
      [] w = "B" -> "b"
      [] w = "X" -> "x"
      [] w = "Y" -> "y"
      [] w = "Untitled" -> "untitled"
      [] OTHER -> w

----------------------------------------------------------------------------
(* templates.py *)

\* class SlideType(Enum): member name -> value
SlideType ==
    [TITLE |-> "title", CONTENT |-> "content", IMAGE |-> "image",
     COMPARISON |-> "comparison", SECTION |-> "section"]

\* SlideType(value): the member with that value, "ValueError" when there is none
SlideTypeOf(value) ==
    IF \E m \in DOMAIN SlideType : SlideType[m] = value
    THEN CHOOSE m \in DOMAIN SlideType : SlideType[m] = value
    ELSE "ValueError"

\* the components of a path text, cut at "/"
RECURSIVE PathParts(_)
PathParts(s) ==
    LET cut == {i \in 1..Len(s) : s[i] = "/"}
    IN  IF cut = {} THEN <<s>>
        ELSE <<SubSeq(s, 1, MinOf(cut) - 1)>> \o PathParts(Tail2(s, MinOf(cut) + 1))

RECURSIVE JoinPath(_)
JoinPath(ps) ==
    IF ps = <<>> THEN <<>>
    ELSE IF Len(ps) = 1 THEN ps[1]
    ELSE ps[1] \o <<"/">> \o JoinPath(Tail(ps))

\* pathlib.Path(text): empty and "." components and doubled "/" go
Path(s) ==
    LET Named(body) == [path |-> IF body = <<>> THEN <<".">> ELSE body]
    IN  Named((IF At(s, 1, "/") THEN <<"/">> ELSE <<>>)
              \o JoinPath(SelectSeq(PathParts(s), LAMBDA p : p # <<>> /\ p # <<".">>)))

\* Path.parent: the path without its last component
PathParent(p) ==
    LET Parts(ps) ==
            IF Len(ps) = 1 THEN [path |-> <<".">>]
            ELSE [path |-> JoinPath(SubSeq(ps, 1, Len(ps) - 1))]
    IN  Parts(PathParts(p.path))

\* Path.stem: the last component without its suffix
PathStem(p) ==
    LET Stem(last) ==
            IF Len(last) > 1 /\ last[Len(last)] \in {".md", ".pptx", ".png", ".jpg"}
            THEN SubSeq(last, 1, Len(last) - 1)
            ELSE last
        Last(ps) == Stem(ps[Len(ps)])
    IN  Last(PathParts(p.path))

\* SlideTemplate.title_slide
title_slide(title, subtitle) ==
    [slide_type |-> "TITLE", params |-> [title |-> title, subtitle |-> subtitle]]

\* SlideTemplate.content_slide
content_slide(title, items) ==
    [slide_type |-> "CONTENT", params |-> [title |-> title, content |-> items]]

\* SlideTemplate.image_slide
image_slide(title, image_path, caption) ==
    [slide_type |-> "IMAGE",
     params |-> [title |-> title, image_path |-> image_path, caption |-> caption]]

\* SlideTemplate.section_slide
section_slide(title, description) ==
    [slide_type |-> "SECTION", params |-> [title |-> title, description |-> description]]

\* SlideTemplate.to_dict with the name of the enum member in the place of its value
slide_to_dict_name(slide) == [type |-> slide.slide_type, params |-> slide.params]

\* SlideTemplate.to_dict
slide_to_dict(slide) == [type |-> SlideType[slide.slide_type], params |-> slide.params]

\* PresentationTemplate(name)
NewTemplate(n) == [name |-> n, slides |-> <<>>]

\* add_slide that leaves out a slide the template has already
add_slide_once(t, slide) ==
    IF \E i \in 1..Len(t.slides) : t.slides[i] = slide THEN t
    ELSE [t EXCEPT !.slides = Append(@, slide)]

\* add_slide with insert(0, ...) in the place of append
add_slide_front(t, slide) == [t EXCEPT !.slides = <<slide>> \o @]

\* PresentationTemplate.add_slide
add_slide(t, slide) == [t EXCEPT !.slides = Append(@, slide)]

\* PresentationTemplate.to_dict
to_dict(t) ==
    [name |-> t.name, slides |-> [i \in 1..Len(t.slides) |-> slide_to_dict(t.slides[i])]]

\* the loop of from_dict over data["slides"]: SlideType(...) raises ValueError
\* for a type that is no value of the enum
RECURSIVE FromDictLoop(_, _)
FromDictLoop(slides, t) ==
    LET Typed(slide_data, slide_type) ==
            IF slide_type = "ValueError"
            THEN [outcome |-> "ValueError", template |-> t]
            ELSE FromDictLoop(Tail(slides),
                              add_slide(t, [slide_type |-> slide_type,
                                            params |-> slide_data.params]))
        Step(slide_data) ==
            IF ~({"type", "params"} \subseteq DOMAIN slide_data)
            THEN [outcome |-> "KeyError", template |-> t]
            ELSE Typed(slide_data, SlideTypeOf(slide_data.type))
    IN  IF slides = <<>> THEN [outcome |-> "returned", template |-> t]
        ELSE Step(Head(slides))

\* PresentationTemplate.from_dict
from_dict(d) ==
    IF "name" \notin DOMAIN d THEN [outcome |-> "KeyError", template |-> NewTemplate(<<>>)]
    ELSE FromDictLoop(IF "slides" \in DOMAIN d THEN d.slides ELSE <<>>, NewTemplate(d.name))

----------------------------------------------------------------------------
(* templates.py with object identity: lists, dicts and templates on a heap *)

\* a value held in a list, a dict or an attribute: an immutable value, or a
\* reference to the object at an address of the heap
Imm(x) == [ref |-> 0, val |-> x]
Ref(a) == [ref |-> a, val |-> <<>>]

HeapList(items) == [kind |-> "list", items |-> items]
HeapDict(items) == [kind |-> "dict", items |-> items]

\* what a value holds, followed through its references
RECURSIVE ValueIn(_, _)
ValueIn(h, v) ==
    LET Of(o) ==
            CASE o.kind = "list" -> [i \in 1..Len(o.items) |-> ValueIn(h, o.items[i])]
              [] o.kind = "dict" -> [k \in DOMAIN o.items |-> ValueIn(h, o.items[k])]
              [] o.kind = "SlideTemplate" ->
                     [slide_type |-> o.slide_type, params |-> ValueIn(h, o.params)]
              [] o.kind = "PresentationTemplate" ->
                     [name |-> o.name, slides |-> ValueIn(h, o.slides)]
    IN  IF v.ref = 0 THEN v.val ELSE Of(h[v.ref])

\* SlideTemplate.__init__(slide_type, **kwargs): kwargs is a dict of its own,
\* its values are the objects that were passed
HeapSlideTemplate(h, slide_type, kwargs) ==
    [heap |-> h \o << HeapDict(kwargs),
                      [kind |-> "SlideTemplate", slide_type |-> slide_type,
                       params |-> Ref(Len(h) + 1)] >>,
     ref |-> Ref(Len(h) + 2)]

\* a factory call by the caller: the content list is a list of the caller
HeapFactorySlide(h, slide) ==
    IF "content" \in DOMAIN slide.params
    THEN HeapSlideTemplate(
             Append(h, HeapList([i \in 1..Len(slide.params.content) |->
                                    Imm(slide.params.content[i])])),
             slide.slide_type,
             [k \in DOMAIN slide.params |->
                 IF k = "content" THEN Ref(Len(h) + 1) ELSE Imm(slide.params[k])])
    ELSE HeapSlideTemplate(h, slide.slide_type,
                           [k \in DOMAIN slide.params |-> Imm(slide.params[k])])

\* PresentationTemplate.__init__(name, slides): self.slides = slides or [];
\* slides is <<>> for None
HeapPresentationTemplate(h, template_name, slides) ==
    IF slides # <<>> /\ h[slides[1].ref].items # <<>>
    THEN [heap |-> Append(h, [kind |-> "PresentationTemplate", name |-> template_name,
                              slides |-> slides[1]]),
          ref |-> Ref(Len(h) + 1)]
    ELSE [heap |-> h \o << HeapList(<<>>),
                           [kind |-> "PresentationTemplate", name |-> template_name,
                            slides |-> Ref(Len(h) + 1)] >>,
          ref |-> Ref(Len(h) + 2)]

\* list.append(x) on the list at an address
HeapAppend(h, a, x) == [h EXCEPT ![a].items = Append(@, x)]

\* PresentationTemplate.add_slide
HeapAddSlide(h, t, slide) == HeapAppend(h, h[t.ref].slides.ref, slide)

\* [slide.to_dict() for slide in self.slides]: a new dict per slide, its
\* "params" is the slide's own params dict
RECURSIVE HeapToDictLoop(_, _, _)
HeapToDictLoop(h, slides, dicts) ==
    IF slides = <<>> THEN [heap |-> h, dicts |-> dicts]
    ELSE HeapToDictLoop(
             Append(h, HeapDict([type |-> Imm(SlideType[h[Head(slides).ref].slide_type]),
                                 params |-> h[Head(slides).ref].params])),
             Tail(slides), Append(dicts, Ref(Len(h) + 1)))

\* PresentationTemplate.to_dict
HeapToDict(h, t) ==
    LET Dict(r) ==
            [heap |-> r.heap \o << HeapList(r.dicts),
                                   HeapDict([name |-> Imm(h[t.ref].name),
                                             slides |-> Ref(Len(r.heap) + 1)]) >>,
             ref |-> Ref(Len(r.heap) + 2)]
    IN  Dict(HeapToDictLoop(h, h[h[t.ref].slides.ref].items, <<>>))

\* the loop of from_dict: SlideTemplate(slide_type, **slide_data["params"])
\* and add_slide for every slide dict
RECURSIVE HeapFromDictLoop(_, _, _)
HeapFromDictLoop(h, slides, t) ==
    LET Add(r) == HeapAddSlide(r.heap, t, r.ref)
        Step(slide_data) ==
            Add(HeapSlideTemplate(h, SlideTypeOf(slide_data.type.val),
                                  h[slide_data.params.ref].items))
    IN  IF slides = <<>> THEN h
        ELSE HeapFromDictLoop(Step(h[Head(slides).ref].items), Tail(slides), t)

\* PresentationTemplate.from_dict
HeapFromDict(h, d) ==
    LET Loop(items, r) ==
            [heap |-> HeapFromDictLoop(r.heap, h[items.slides.ref].items, r.ref),
             ref |-> r.ref]
        Named(items) == Loop(items, HeapPresentationTemplate(h, items.name.val, <<>>))
    IN  Named(h[d.ref].items)

----------------------------------------------------------------------------
(* core.py: PresentationBuilder, and the document it drives *)

\* PresentationBuilder(): an empty record and a document without slides
NewBuilder == [slides |-> <<>>, presentation |-> <<>>]

\* a file system without files
NoFiles == [path \in {} |-> "none"]

\* a slide of the document, as python-pptx makes it from a layout of the
\* default template: title is <<text>> when the layout has a title
\* placeholder and <<>> when it has none, body is the paragraphs of
\* placeholder 1 (a fresh one holds one empty paragraph), textboxes and
\* pictures are the shapes that were added
NewSlide(layout) ==
    [layout |-> layout,
     title |-> IF layout = 6 THEN <<>> ELSE << <<>> >>,
     body |-> IF layout = 6 THEN <<>> ELSE << <<>> >>,
     textboxes |-> <<>>,
     pictures |-> <<>>]

\* what a call on the builder gives: the builder after it, and the exception
\* that escaped ("" when the call returned)
Returned(b) == [builder |-> b, raised |-> ""]
Raised(b, exception) == [builder |-> b, raised |-> exception]

\* presentation.slides.add_slide(layout), the slide then filled in, and
\* self.slides.append(slide)
Appended(b, slide) ==
    [slides |-> Append(b.slides, slide), presentation |-> Append(b.presentation, slide)]

\* PresentationBuilder.add_title_slide
add_title_slide(b, title, subtitle) ==
    Returned(Appended(b, [NewSlide(0) EXCEPT
                             !.title = <<title>>,
                             !.body = IF subtitle # <<>> THEN <<subtitle>> ELSE @]))

\* PresentationBuilder.add_content_slide: text_frame.clear() leaves one empty
\* paragraph, which takes the first item
add_content_slide(b, title, items) ==
    Returned(Appended(b, [NewSlide(1) EXCEPT
                             !.title = <<title>>,
                             !.body = IF items # <<>> THEN items ELSE << <<>> >>]))

\* PresentationBuilder.add_image_slide: the slide is in the document from its
\* second line on; add_picture raises for a file that is no image, and the
\* record is appended to in the last line only
add_image_slide(b, fs, title, image_path, caption) ==
    LET Captioned(slide) ==
            IF caption # <<>> THEN [slide EXCEPT !.textboxes = Append(@, caption)]
            ELSE slide
        Pictured(slide) ==
            IF image_path \notin DOMAIN fs THEN Returned(Appended(b, Captioned(slide)))
            ELSE IF fs[image_path].kind = "image"
            THEN Returned(Appended(b, Captioned([slide EXCEPT !.pictures = <<image_path>>])))
            ELSE Raised([b EXCEPT !.presentation = Append(@, slide)], "OSError")
    IN  Pictured([NewSlide(6) EXCEPT !.textboxes = <<title>>])

\* PresentationBuilder.add_section_slide
add_section_slide(b, title, description) ==
    Returned(Appended(b, [NewSlide(2) EXCEPT
                             !.title = <<title>>,
                             !.body = IF description # <<>> THEN <<description>> ELSE @]))

\* PresentationBuilder.get_slide_count
get_slide_count(b) == Len(b.presentation)

\* PresentationBuilder.get_slide_titles
get_slide_titles(b) ==
    [i \in 1..Len(b.presentation) |->
        IF b.presentation[i].title # <<>> THEN b.presentation[i].title[1]
        ELSE <<"(No Title)">>]

----------------------------------------------------------------------------
(* yaml.safe_load, as far as the front matter blocks of the model go *)

\* one stripped line of a block: "pair" (key: value), "item" (- value), "plain"
\* (words), "skip" (blank, comment, or the --- that starts a document), "bad"
\* (anything else, such as a: b: c)
YamlKind(t) ==
    IF t = <<>> \/ t[1] = "#" \/ t = <<"-", "-", "-">> THEN "skip"
    ELSE IF Len(t) >= 4 /\ IsWord(t[1]) /\ t[2] = ":" /\ t[3] = " "
            /\ \A i \in 4..Len(t) : IsWord(t[i]) \/ t[i] = " "
         THEN "pair"
    ELSE IF Len(t) >= 3 /\ t[1] = "-" /\ t[2] = " "
            /\ \A i \in 3..Len(t) : IsWord(t[i]) \/ t[i] = " "
         THEN "item"
    ELSE IF \A i \in 1..Len(t) : IsWord(t[i]) \/ t[i] = " " THEN "plain"
    ELSE "bad"

\* the stripped lines of a block that hold something
YamlLines(block) ==
    LET Stripped(ls) == [i \in 1..Len(ls) |-> Strip(ls[i])]
    IN  SelectSeq(Stripped(SplitLines(block)), LAMBDA t : YamlKind(t) # "skip")

\* yaml.safe_load(block): kind is "None", "dict", "list", "str" or "YAMLError";
\* a later pair of a key replaces an earlier one
yaml_safe_load(block) ==
    LET Load(ls, kinds) ==
            IF kinds = {} THEN [kind |-> "None", value |-> <<>>]
            ELSE IF kinds = {"pair"}
            THEN [kind |-> "dict",
                  value |-> [k \in {ls[i][1] : i \in 1..Len(ls)} |->
                             Strip(Tail2(ls[MaxOf({i \in 1..Len(ls) : ls[i][1] = k})], 4))]]
            ELSE IF kinds = {"item"}
            THEN [kind |-> "list", value |-> [i \in 1..Len(ls) |-> Strip(Tail2(ls[i], 3))]]
            ELSE IF kinds = {"plain"}
            THEN [kind |-> "str", value |-> ls[1]]
            ELSE [kind |-> "YAMLError", value |-> <<>>]
        Kinds(ls) == Load(ls, {YamlKind(ls[i]) : i \in 1..Len(ls)})
    IN  Kinds(YamlLines(block))

----------------------------------------------------------------------------
(* markdown.py: MarkdownParser *)

\* the suffixes of _parse_image_slide
ImageSuffixes == {".jpg", ".jpeg", ".png", ".gif", ".bmp"}

\* r'!\[([^\]]*)\]\(([^)]+)\)' at index i of a line
ImageMarkupAt(l, i) ==
    LET none == [ok |-> FALSE, alt |-> <<>>, path |-> <<>>]
        Target(r, rp) ==
            IF rp = {} \/ MinOf(rp) = r + 2 THEN none
            ELSE [ok |-> TRUE, alt |-> SubSeq(l, i + 2, r - 1),
                  path |-> SubSeq(l, r + 2, MinOf(rp) - 1)]
        Bracket(r) ==
            IF At(l, r + 1, "(") THEN Target(r, {j \in (r + 2)..Len(l) : l[j] = ")"})
            ELSE none
        Alt(rb) == IF rb = {} THEN none ELSE Bracket(MinOf(rb))
    IN  IF At(l, i, "!") /\ At(l, i + 1, "[")
        THEN Alt({j \in (i + 2)..Len(l) : l[j] = "]"})
        ELSE none

\* re.search of the image markup in a line: the leftmost match
ImageMarkup(l) ==
    LET First(hits) ==
            IF hits = {} THEN [ok |-> FALSE, alt |-> <<>>, path |-> <<>>]
            ELSE ImageMarkupAt(l, MinOf(hits))
    IN  First({i \in 1..Len(l) : ImageMarkupAt(l, i).ok})

\* the loop with the suffix test ahead of the search for markup
RECURSIVE ImageLoopSuffixFirst(_, _, _)
ImageLoopSuffixFirst(ls, image_path, caption_parts) ==
    LET Step(line, m) ==
            IF line # <<>> /\ line[Len(line)] \in ImageSuffixes
            THEN ImageLoopSuffixFirst(Tail(ls), Path(line), caption_parts)
            ELSE IF m.ok
            THEN ImageLoopSuffixFirst(Tail(ls), Path(m.path),
                                      IF m.alt # <<>> THEN Append(caption_parts, m.alt)
                                      ELSE caption_parts)
            ELSE IF line # <<>> /\ line[1] # "!"
            THEN ImageLoopSuffixFirst(Tail(ls), image_path, Append(caption_parts, line))
            ELSE ImageLoopSuffixFirst(Tail(ls), image_path, caption_parts)
    IN  IF ls = <<>> THEN [image_path |-> image_path, caption_parts |-> caption_parts]
        ELSE Step(Head(ls), ImageMarkup(Head(ls)))

\* the loop of _parse_image_slide over content_lines
RECURSIVE ImageLoop(_, _, _)
ImageLoop(ls, image_path, caption_parts) ==
    LET Step(line, m) ==
            IF m.ok
            THEN ImageLoop(Tail(ls), Path(m.path),
                           IF m.alt # <<>> THEN Append(caption_parts, m.alt)
                           ELSE caption_parts)
            ELSE IF line # <<>> /\ line[Len(line)] \in ImageSuffixes
            THEN ImageLoop(Tail(ls), Path(line), caption_parts)
            ELSE IF line # <<>> /\ line[1] # "!"
            THEN ImageLoop(Tail(ls), image_path, Append(caption_parts, line))
            ELSE ImageLoop(Tail(ls), image_path, caption_parts)
    IN  IF ls = <<>> THEN [image_path |-> image_path, caption_parts |-> caption_parts]
        ELSE Step(Head(ls), ImageMarkup(Head(ls)))

\* MarkdownParser._parse_image_slide
parse_image_slide(title, content_lines) ==
    LET Build(r) == image_slide(title, r.image_path, JoinLines(r.caption_parts))
    IN  Build(ImageLoop(content_lines, Path(<<"placeholder", ".jpg">>), <<>>))

\* the title loop without the startswith('#') test: the first line is the title
RECURSIVE TitleLoopAnyLine(_, _, _, _)
TitleLoopAnyLine(ls, title, title_found, content_lines) ==
    LET Step(line) ==
            IF line = <<>> THEN TitleLoopAnyLine(Tail(ls), title, title_found, content_lines)
            ELSE IF ~title_found
            THEN TitleLoopAnyLine(Tail(ls), Strip(LStripHash(line)), TRUE, content_lines)
            ELSE TitleLoopAnyLine(Tail(ls), title, title_found, Append(content_lines, line))
    IN  IF ls = <<>> THEN [title |-> title, content_lines |-> content_lines]
        ELSE Step(Strip(Head(ls)))

\* the title loop without "and not title_found": every '#' line is the title
RECURSIVE TitleLoopEveryHash(_, _, _, _)
TitleLoopEveryHash(ls, title, title_found, content_lines) ==
    LET Step(line) ==
            IF line = <<>> THEN TitleLoopEveryHash(Tail(ls), title, title_found, content_lines)
            ELSE IF line[1] = "#"
            THEN TitleLoopEveryHash(Tail(ls), Strip(LStripHash(line)), TRUE, content_lines)
            ELSE IF title_found
            THEN TitleLoopEveryHash(Tail(ls), title, title_found, Append(content_lines, line))
            ELSE TitleLoopEveryHash(Tail(ls), title, title_found, content_lines)
    IN  IF ls = <<>> THEN [title |-> title, content_lines |-> content_lines]
        ELSE Step(Strip(Head(ls)))

\* the title loop of _parse_slide: blank lines go, the first '#' line is the
\* title, the lines after it are the content lines
RECURSIVE TitleLoop(_, _, _, _)
TitleLoop(ls, title, title_found, content_lines) ==
    LET Step(line) ==
            IF line = <<>> THEN TitleLoop(Tail(ls), title, title_found, content_lines)
            ELSE IF line[1] = "#" /\ ~title_found
            THEN TitleLoop(Tail(ls), Strip(LStripHash(line)), TRUE, content_lines)
            ELSE IF title_found
            THEN TitleLoop(Tail(ls), title, title_found, Append(content_lines, line))
            ELSE TitleLoop(Tail(ls), title, title_found, content_lines)
    IN  IF ls = <<>> THEN [title |-> title, content_lines |-> content_lines]
        ELSE Step(Strip(Head(ls)))

\* the bullet loop with line[2:] in the place of line[2:].strip()
RECURSIVE BulletPointsNoStrip(_)
BulletPointsNoStrip(ls) ==
    LET Step(line) ==
            IF StartsWith(line, <<"-", " ">>) \/ StartsWith(line, <<"*", " ">>)
               \/ StartsWith(line, <<"+", " ">>)
            THEN <<Tail2(line, 3)>> \o BulletPointsNoStrip(Tail(ls))
            ELSE IF line # <<>> /\ line[1] # "#"
            THEN <<line>> \o BulletPointsNoStrip(Tail(ls))
            ELSE BulletPointsNoStrip(Tail(ls))
    IN  IF ls = <<>> THEN <<>> ELSE Step(Head(ls))

\* the bullet loop of _parse_slide
RECURSIVE BulletPoints(_)
BulletPoints(ls) ==
    LET Step(line) ==
            IF StartsWith(line, <<"-", " ">>) \/ StartsWith(line, <<"*", " ">>)
            THEN <<Strip(Tail2(line, 3))>> \o BulletPoints(Tail(ls))
            ELSE IF StartsWith(line, <<"+", " ">>)
            THEN <<Strip(Tail2(line, 3))>> \o BulletPoints(Tail(ls))
            ELSE IF line # <<>> /\ line[1] # "#"
            THEN <<line>> \o BulletPoints(Tail(ls))
            ELSE BulletPoints(Tail(ls))
    IN  IF ls = <<>> THEN <<>> ELSE Step(Head(ls))

\* the directive with re.sub outside the try: an unknown word is removed too
SlideDirectiveRemoved(text) ==
    LET default == [slide_type |-> "CONTENT", text |-> text]
        Typed(type) ==
            [slide_type |-> IF type = "ValueError" THEN "CONTENT" ELSE type,
             text |-> SubDirective(text)]
        Word(word) ==
            Typed(IF Len(word) = 1 THEN SlideTypeOf(Lower(word[1])) ELSE "ValueError")
        Match(m) == Word(SubSeq(text, m.from, m.to))
        First(hits) == IF hits = {} THEN default ELSE Match(Directive(text, MinOf(hits)))
    IN  First({i \in 1..Len(text) : Directive(text, i).end # 0})

\* the directive of _parse_slide: the slide type, and the text to go on with
SlideDirective(text) ==
    LET default == [slide_type |-> "CONTENT", text |-> text]
        Typed(type) ==
            IF type = "ValueError" THEN default
            ELSE [slide_type |-> type, text |-> SubDirective(text)]
        Word(word) ==
            Typed(IF Len(word) = 1 THEN SlideTypeOf(Lower(word[1])) ELSE "ValueError")
        Match(m) == Word(SubSeq(text, m.from, m.to))
        First(hits) == IF hits = {} THEN default ELSE Match(Directive(text, MinOf(hits)))
    IN  First({i \in 1..Len(text) : Directive(text, i).end # 0})

\* the branch on the slide type with content_lines[-1] as the subtitle
SlideOfTypeLastLine(slide_type, title, content_lines) ==
    IF title = <<>> THEN <<>>
    ELSE IF slide_type = "TITLE"
    THEN <<title_slide(title, IF content_lines # <<>> THEN content_lines[Len(content_lines)]
                              ELSE <<>>)>>
    ELSE IF slide_type = "IMAGE"
    THEN <<parse_image_slide(title, content_lines)>>
    ELSE IF slide_type = "SECTION"
    THEN <<section_slide(title, JoinLines(content_lines))>>
    ELSE <<content_slide(title, BulletPoints(content_lines))>>

\* the branch on the slide type with a branch of its own for COMPARISON
SlideOfTypeComparison(slide_type, title, content_lines) ==
    IF title = <<>> THEN <<>>
    ELSE IF slide_type = "TITLE"
    THEN <<title_slide(title, IF content_lines # <<>> THEN content_lines[1] ELSE <<>>)>>
    ELSE IF slide_type = "IMAGE"
    THEN <<parse_image_slide(title, content_lines)>>
    ELSE IF slide_type = "SECTION"
    THEN <<section_slide(title, JoinLines(content_lines))>>
    ELSE IF slide_type = "COMPARISON"
    THEN <<[slide_type |-> "COMPARISON",
            params |-> [title |-> title, content |-> BulletPoints(content_lines)]]>>
    ELSE <<content_slide(title, BulletPoints(content_lines))>>

\* the branch of _parse_slide on the slide type
SlideOfType(slide_type, title, content_lines) ==
    IF title = <<>> THEN <<>>
    ELSE IF slide_type = "TITLE"
    THEN <<title_slide(title, IF content_lines # <<>> THEN content_lines[1] ELSE <<>>)>>
    ELSE IF slide_type = "IMAGE"
    THEN <<parse_image_slide(title, content_lines)>>
    ELSE IF slide_type = "SECTION"
    THEN <<section_slide(title, JoinLines(content_lines))>>
    ELSE <<content_slide(title, BulletPoints(content_lines))>>

\* MarkdownParser._parse_slide: <<>> for None, <<slide>> otherwise
parse_slide(text) ==
    LET Lines(slide_type, r) == SlideOfType(slide_type, r.title, r.content_lines)
        Typed(d) == Lines(d.slide_type, TitleLoop(SplitLines(d.text), <<>>, FALSE, <<>>))
    IN  Typed(SlideDirective(text))

\* the slide loop of parse_content
RECURSIVE SlideLoop(_, _)
SlideLoop(chunks, t) ==
    LET Add(s) == IF s # <<>> THEN add_slide(t, s[1]) ELSE t
        Step(c) == IF c # <<>> THEN Add(parse_slide(c)) ELSE t
    IN  IF chunks = <<>> THEN t ELSE SlideLoop(Tail(chunks), Step(Strip(Head(chunks))))

\* dict.get that always gives the default
DictGetDefault(d, key, default) == default

\* dict.get(key, default)
DictGet(d, key, default) == IF key \in DOMAIN d THEN d[key] ELSE default

\* MarkdownParser.parse_content: the exception that escapes, or the template
parse_content(text, fallback) ==
    LET Named(rest, presentation_name) ==
            [outcome  |-> "returned",
             template |-> SlideLoop(SplitSlides(Strip(rest)), NewTemplate(presentation_name))]
        Loaded(rest, y) ==
            IF y.kind = "YAMLError"
            THEN [outcome |-> "ValueError", template |-> NewTemplate(<<>>)]
            ELSE IF y.kind \in {"str", "list"}
            THEN [outcome |-> "AttributeError", template |-> NewTemplate(<<>>)]
            ELSE IF y.kind = "dict"
            THEN Named(rest, DictGet(y.value, "title", fallback))
            ELSE Named(rest, fallback)
        Matched(fm) ==
            IF fm.found THEN Loaded(Tail2(text, fm.end), yaml_safe_load(fm.block))
            ELSE Named(text, fallback)
    IN  Matched(FrontMatter(text))

----------------------------------------------------------------------------
(* core.py: replaying a template into the builder *)

\* PresentationBuilder._add_slide_from_template: the add_* call it makes, with
\* params.get(key, default) for every argument, and what that call gives
add_slide_from_template(b, fs, slide_template) ==
    LET slide_type == slide_template.slide_type
        params == slide_template.params
        Made(r, entry) ==
            [builder |-> r.builder, raised |-> r.raised,
             entry |-> [entry EXCEPT !.raised = r.raised]]
        Title(title, subtitle) ==
            Made(add_title_slide(b, title, subtitle),
                 [op |-> "add_title_slide", title |-> title, subtitle |-> subtitle,
                  raised |-> ""])
        Content(title, items) ==
            Made(add_content_slide(b, title, items),
                 [op |-> "add_content_slide", title |-> title, content |-> items,
                  raised |-> ""])
        Image(title, image_path, caption) ==
            Made(add_image_slide(b, fs, title, image_path, caption),
                 [op |-> "add_image_slide", title |-> title, image_path |-> image_path,
                  caption |-> caption, raised |-> ""])
        Section(title, description) ==
            Made(add_section_slide(b, title, description),
                 [op |-> "add_section_slide", title |-> title,
                  description |-> description, raised |-> ""])
    IN  IF slide_type = "TITLE"
        THEN Title(DictGet(params, "title", <<>>), DictGet(params, "subtitle", <<>>))
        ELSE IF slide_type = "CONTENT"
        THEN Content(DictGet(params, "title", <<>>), DictGet(params, "content", <<>>))
        ELSE IF slide_type = "IMAGE"
        THEN Image(DictGet(params, "title", <<>>),
                   DictGet(params, "image_path", Path(<<"placeholder", ".jpg">>)),
                   DictGet(params, "caption", <<>>))
        ELSE IF slide_type = "SECTION"
        THEN Section(DictGet(params, "title", <<>>), DictGet(params, "description", <<>>))
        ELSE Content(DictGet(params, "title", <<"Untitled">>),
                     DictGet(params, "content", <<>>))

\* PresentationBuilder.build_from_template: the loop ends with the template
\* or with the first call that raises; log is the add_* calls that were made
RECURSIVE build_from_template(_, _, _, _)
build_from_template(b, fs, slides, log) ==
    LET Step(r) ==
            IF r.raised # ""
            THEN [builder |-> r.builder, raised |-> r.raised, log |-> Append(log, r.entry)]
            ELSE build_from_template(r.builder, fs, Tail(slides), Append(log, r.entry))
    IN  IF slides = <<>> THEN [builder |-> b, raised |-> "", log |-> log]
        ELSE Step(add_slide_from_template(b, fs, Head(slides)))

\* PresentationBuilder.save: mkdir(parents=True, exist_ok=True) of the parent
\* raises when the parent is there and is no directory; then the document is
\* written to the path
save(b, fs, output_path) ==
    LET parent == PathParent(output_path)
        Put(f, path, file) == [q \in DOMAIN f \cup {path} |-> IF q = path THEN file ELSE f[q]]
    IN  IF parent \in DOMAIN fs /\ fs[parent].kind # "dir"
        THEN [files |-> fs, raised |-> "FileExistsError"]
        ELSE [files |-> Put(Put(fs, parent, [kind |-> "dir", text |-> <<>>]),
                            output_path, [kind |-> "pptx", text |-> b.presentation]),
              raised |-> ""]

----------------------------------------------------------------------------
(* __main__.py: the markdown command *)

\* a handler for the parser's ValueError alone
CaughtValueError(exception) == exception = "ValueError"

\* except Exception: what the handler of create_from_markdown catches
Caught(exception) ==
    exception \in {"ValueError", "AttributeError", "OSError", "FileExistsError",
                   "FileNotFoundError"}

\* Path(f"outputs/{output_name}.pptx"), with the stem of the markdown file for
\* an output name that was not given
OutputPath(markdown_path, output_name) ==
    Path(<<"outputs", "/">>
         \o (IF output_name # <<>> THEN output_name[1] ELSE PathStem(markdown_path))
         \o <<".pptx">>)

----------------------------------------------------------------------------
(* The inputs: how a document is written *)

\* <!-- type: word --> on a line of its own
DirectiveLine(word) == <<"<!--", " ", "type:", " ", word, " ", "-->">>

\* # title
TitleLine(title) == <<"#", " ">> \o title

\* a chunk: an optional directive line before or after an optional title line,
\* then the body lines; or the directive at the end of the title line
\* ("title_end") or at the end of the first body line ("body_end")
ChunkLines(c) ==
    LET d == IF c.dir = "" THEN <<>> ELSE <<DirectiveLine(c.dir)>>
        t == IF c.title = <<>> THEN <<>> ELSE <<TitleLine(c.title)>>
    IN  IF c.place = "before" THEN d \o t \o c.body
        ELSE IF c.place = "title_end"
        THEN <<TitleLine(c.title) \o <<" ">> \o DirectiveLine(c.dir)>> \o c.body
        ELSE IF c.place = "body_end"
        THEN t \o <<c.body[1] \o <<" ">> \o DirectiveLine(c.dir)>> \o Tail(c.body)
        ELSE t \o d \o c.body

RenderChunk(c) == JoinLines(ChunkLines(c))

Separator == <<NL, NL, "-", "-", "-", NL, NL>>

RECURSIVE JoinChunks(_)
JoinChunks(cs) ==
    IF cs = <<>> THEN <<>>
    ELSE IF Len(cs) = 1 THEN RenderChunk(cs[1])
    ELSE RenderChunk(cs[1]) \o Separator \o JoinChunks(Tail(cs))

\* ---, the block, ---, a blank line, the chunks
RenderDoc(d) ==
    IF d.front.is = "absent" THEN JoinChunks(d.chunks)
    ELSE <<"-", "-", "-", NL>> \o JoinLines(d.front.lines)
         \o <<NL, "-", "-", "-", NL, NL>> \o JoinChunks(d.chunks)

Chunk(dir, place, title, body) ==
    [dir |-> dir, place |-> place, title |-> title, body |-> body]

\* the chunks the documents are made of: a content slide, a title slide, a
\* chunk without a title line, a directive and a body without a title line,
\* an empty chunk and a chunk of whitespace
DocChunks ==
    { Chunk("", "before", <<"A">>, << <<"-", " ", "x">> >>),
      Chunk("title", "before", <<"B">>, << <<"s">> >>),
      Chunk("", "before", <<>>, << <<"x">> >>),
      Chunk("section", "before", <<>>, << <<"y">> >>),
      Chunk("", "before", <<>>, <<>>),
      Chunk("", "before", <<>>, << <<" ">> >>) }

Front(is, lines) == [is |-> is, lines |-> lines]

\* the front matter blocks: none; mappings with and without a title; an empty
\* block, which is two separators with nothing between them; a YAML syntax
\* error; a scalar and a list, which are no mappings
Fronts ==
    { Front("absent", <<>>),
      Front("mapping", << <<"title", ":", " ", "X">> >>),
      Front("mapping", << <<"author", ":", " ", "Y">> >>),
      Front("mapping", << <<"title", ":", " ", "X">>, <<"author", ":", " ", "Y">> >>),
      Front("empty", <<>>),
      Front("syntax", << <<"a", ":", " ", "b", ":", " ", "c">> >>),
      Front("scalar", << <<"x">> >>),
      Front("list", << <<"-", " ", "x">> >>) }

Names == { <<"Untitled">>, <<"deck">> }

SeqsUpTo(S, n) == UNION {[1..k -> S] : k \in 0..n}

\* the body lines of a content or title chunk: a bullet of each marker, a plain
\* line, a heading line, a bullet with two spaces after its marker, and a dash
\* that no space follows
BulletLines ==
    { <<"-", " ", "A">>, <<"*", " ", "B">>, <<"+", " ", "c">>, <<"x">>,
      <<"#", "#", " ", "X">>, <<"-", " ", " ", "y">>, <<"-", "b">> }

\* a body line of an image chunk, with what it was written as: "markup" is
\* lead ![alt](target) trail, any other kind is the text of target
ImageLine(kind, lead, alt, target, trail) ==
    [kind |-> kind, lead |-> lead, alt |-> alt, target |-> target, trail |-> trail]

RenderImageLine(l) ==
    IF l.kind = "markup"
    THEN l.lead \o <<"!", "[">> \o l.alt \o <<"]", "(">> \o l.target \o <<")">> \o l.trail
    ELSE l.target

\* the body lines of an image chunk: markup with and without alt text, markup
\* after other text, markup before text that ends in a suffix, a line that is
\* a path, a path below ".", caption text, an upper-case suffix, a heading
\* line, and a line that starts with "!" and is no markup
ImageLines ==
    { ImageLine("markup", <<>>, <<"alt">>, <<"p", ".png">>, <<>>),
      ImageLine("markup", <<>>, <<>>, <<"q", ".jpg">>, <<>>),
      ImageLine("markup", <<"c", " ">>, <<"a">>, <<".", "/", "q", ".gif">>, <<>>),
      ImageLine("markup", <<>>, <<"b">>, <<"p", ".bmp">>, <<" ", "x", ".png">>),
      ImageLine("path", <<>>, <<>>, <<"x", ".jpg">>, <<>>),
      ImageLine("path", <<>>, <<>>, <<".", "/", "y", ".jpeg">>, <<>>),
      ImageLine("text", <<>>, <<>>, <<"c">>, <<>>),
      ImageLine("text", <<>>, <<>>, <<"X", ".PNG">>, <<>>),
      ImageLine("text", <<>>, <<>>, <<"#", "#", " ", "X">>, <<>>),
      ImageLine("bang", <<>>, <<>>, <<"!", "b">>, <<>>) }

\* an image chunk: its body is the lines as they are rendered
ImageChunk(dir, place, title, lines) ==
    [dir |-> dir, place |-> place, title |-> title, lines |-> lines,
     body |-> [i \in 1..Len(lines) |-> RenderImageLine(lines[i])]]

\* slides of the four factories: title slides with a subtitle and with the
\* default one, content slides with two items and with none, an image slide
\* whose path has a directory, a section slide
FactorySlides ==
    { title_slide(<<"A">>, <<"s">>),
      title_slide(<<"A">>, <<>>),
      content_slide(<<"B">>, << <<"x">>, <<"y">> >>),
      content_slide(<<"B">>, <<>>),
      image_slide(<<"X">>, Path(<<"a", "/", "p", ".png">>), <<"c">>),
      section_slide(<<"Y">>, <<"x">>) }

\* a file: what kind of content it has, and its text
File(kind, text) == [kind |-> kind, text |-> text]

\* the image path of the builder calls
ImagePath == Path(<<"p", ".png">>)

\* the file systems a builder runs on: the image path does not exist, holds an
\* image, or holds something python-pptx cannot read as an image
BuilderFiles ==
    { NoFiles,
      [path \in {ImagePath} |-> File("image", <<>>)],
      [path \in {ImagePath} |-> File("text", <<"x">>)] }

\* the slides of a dict that is read with from_dict and then replayed: of each
\* type one with its parameters and one with parameters missing, and the
\* comparison type, which the builder has no branch for
DictSlides ==
    { [type |-> "title", params |-> [title |-> <<"A">>, subtitle |-> <<"s">>]],
      [type |-> "title", params |-> <<>>],
      [type |-> "content", params |-> [title |-> <<"B">>, content |-> << <<"x">>, <<"y">> >>]],
      [type |-> "content", params |-> [title |-> <<"B">>]],
      [type |-> "image",
       params |-> [title |-> <<"A">>, image_path |-> ImagePath, caption |-> <<"c">>]],
      [type |-> "image", params |-> [title |-> <<"A">>]],
      [type |-> "section", params |-> [title |-> <<"Y">>, description |-> <<"x">>]],
      [type |-> "section", params |-> [description |-> <<"x">>]],
      [type |-> "comparison", params |-> [title |-> <<"X">>, content |-> << <<"x">> >>]],
      [type |-> "comparison", params |-> [left |-> <<"a">>]] }

\* the templates that are replayed: from_dict of a dict of up to MaxReplay slides
ReplayTemplates ==
    {from_dict([name |-> <<"deck">>, slides |-> slides]).template :
        slides \in SeqsUpTo(DictSlides, MaxReplay)}

\* the chunks with a directive of a SlideType word: the directive on a line of
\* its own before or after the title line, at the end of the title line, or
\* at the end of the first body line
DirectiveChunks ==
    {c \in {Chunk(dir, place, <<"A">>, body) :
                dir \in {"title", "Title", "Section", "content", "comparison"},
                place \in {"before", "after", "title_end", "body_end"},
                body \in SeqsUpTo({<<"s">>, <<"-", " ", "x">>, <<"t">>}, MaxBody)} :
        c.place = "body_end" => c.body # <<>>}

\* the lines of a chunk around its title line: heading lines with one and two
\* markers, a marker with no text, an indented heading, a heading without a
\* space after the marker, a plain line, a bullet and a blank line
HeadingLines ==
    { <<"#", " ", "A">>, <<"#", "#", " ", "B", " ">>, <<"#">>, <<" ", "#", " ", "C">>,
      <<"#", "X">>, <<"x">>, <<"-", " ", "y">>, <<>> }

\* chunks of up to MaxBody such lines, as a content slide or under a section
\* directive, which keeps every body line in the description
HeadingChunks ==
    [dir : {"", "section"}, lines : SeqsUpTo(HeadingLines, MaxBody)]

RenderHeadingChunk(c) ==
    JoinLines((IF c.dir = "" THEN <<>> ELSE <<DirectiveLine(c.dir)>>) \o c.lines)

\* chunks of every directive word, each with a title line: the comparison
\* word in two cases and in both places, with bullets of each marker and a
\* plain line, and one chunk of each other type
TypedChunks ==
    { Chunk("comparison", "before", <<"A">>,
            << <<"-", " ", "x">>, <<"*", " ", "y">>, <<"+", " ", " ", "c">>, <<"s">> >>),
      Chunk("Comparison", "after", <<"B">>, << <<"-", " ", "x">> >>),
      Chunk("comparison", "before", <<"X">>, <<>>),
      Chunk("title", "before", <<"A">>, << <<"s">> >>),
      Chunk("image", "before", <<"B">>, << <<"!", "[", "c", "]", "(", "p", ".png", ")">> >>),
      Chunk("section", "before", <<"Y">>, << <<"x">> >>),
      Chunk("", "before", <<"A">>, << <<"-", " ", "x">> >>) }

\* the slides the caller makes before it makes the template: a content slide,
\* whose params hold a list, and a title slide
CallerSlides ==
    { content_slide(<<"B">>, << <<"x">> >>), title_slide(<<"A">>, <<"s">>) }

\* the caller's factory calls, one after the other
RECURSIVE HeapFactorySlides(_, _, _)
HeapFactorySlides(h, slides, refs) ==
    LET Next1(r) == HeapFactorySlides(r.heap, Tail(slides), Append(refs, r.ref))
    IN  IF slides = <<>> THEN [heap |-> h, refs |-> refs]
        ELSE Next1(HeapFactorySlide(h, Head(slides)))

\* the markdown file of the command, and the file its image slide names
MarkdownPath == Path(<<"deck", ".md">>)

\* the chunks of the markdown file: a content slide, an image slide whose
\* picture is the image path, and a chunk without a title line
CliChunks ==
    { Chunk("", "before", <<"A">>, << <<"-", " ", "x">> >>),
      Chunk("image", "before", <<"B">>, << <<"!", "[", "c", "]", "(", "p", ".png", ")">> >>),
      Chunk("", "before", <<>>, << <<"x">> >>) }

\* the file systems the command runs on: the markdown file is there or not,
\* the image path is missing, an image or no image, and "outputs" is missing
\* or is a regular file
CliFiles(text) ==
    { [path \in ps |-> IF path = MarkdownPath THEN File("text", text)
                       ELSE IF path = ImagePath THEN File(kind, <<>>)
                       ELSE File("text", <<>>)] :
        ps \in SUBSET {MarkdownPath, ImagePath, Path(<<"outputs">>)},
        kind \in {"image", "text"} }

\* what stands between two chunks: --- between blank lines, --- between the
\* lines of the chunks, a blank line only above or only below it, --- and a
\* space, four hyphens, and --- after a space
SeparatorKinds == {"blank", "tight", "above", "below", "trailing", "long", "indented"}

SeparatorText(kind) ==
    CASE kind = "blank" -> <<NL, NL, "-", "-", "-", NL, NL>>
      [] kind = "tight" -> <<NL, "-", "-", "-", NL>>
      [] kind = "above" -> <<NL, NL, "-", "-", "-", NL>>
      [] kind = "below" -> <<NL, "-", "-", "-", NL, NL>>
      [] kind = "trailing" -> <<NL, NL, "-", "-", "-", " ", NL, NL>>
      [] kind = "long" -> <<NL, NL, "-", "-", "-", "-", NL, NL>>
      [] kind = "indented" -> <<NL, NL, " ", "-", "-", "-", NL, NL>>

\* the chunks between the separators: each has a title line
SplitChunks ==
    { Chunk("", "before", <<"A">>, << <<"-", " ", "x">> >>),
      Chunk("title", "before", <<"B">>, << <<"s">> >>),
      Chunk("", "before", <<"C">>, <<>>) }

\* chunk 1, separator 1, chunk 2, ...
RECURSIVE JoinWith(_, _)
JoinWith(cs, seps) ==
    IF Len(cs) = 1 THEN RenderChunk(cs[1])
    ELSE RenderChunk(cs[1]) \o SeparatorText(seps[1]) \o JoinWith(Tail(cs), Tail(seps))

\* where the directive line stands: before or after the title line
Places == {"before", "after"}

\* the chunks of text handed to _parse_slide alone: a title line, no directive
\* line or one before or after the title line, and up to MaxBody body lines
TextChunks ==
    {c \in {Chunk(dir, place, <<"A">>, body) :
                dir \in {"", "content", "title", "Title", "foo"}, place \in Places,
                body \in SeqsUpTo(BulletLines, MaxBody)} :
        c.dir = "" => c.place = "before"}

\* the image chunks handed to _parse_slide alone
ImageChunks ==
    {c \in {ImageChunk(dir, place, <<"A">>, lines) :
                dir \in {"image", "IMAGE"}, place \in Places,
                lines \in SeqsUpTo(ImageLines, MaxBody)} :
        c.dir = "IMAGE" => c.place = "before"}

----------------------------------------------------------------------------
(* The calls *)

TypeOK ==
    /\ call \in {"parse_content", "_parse_slide", "from_dict", "builder",
                 "build_from_template", "create_from_markdown", "share"}
    /\ pc \in {"ready", "building", "dumped", "check", "parse", "build", "save", "done"}
    /\ outcome \in {"pending", "returned", "ValueError", "AttributeError", "KeyError",
                    "OSError"}
    /\ Len(parsed) <= 1 /\ Len(data) <= 1 /\ Len(restored) <= 1

\* a document for parse_content, or one chunk for _parse_slide
Init ==
    /\ src \in [front : Fronts, chunks : SeqsUpTo(DocChunks, MaxChunks)]
    /\ call \in {"parse_content", "_parse_slide"}
    /\ call = "_parse_slide" => src.front.is = "absent" /\ Len(src.chunks) = 1
    /\ name \in Names
    /\ call = "_parse_slide" => name = <<"Untitled">>
    /\ content = IF call = "parse_content" THEN RenderDoc(src)
                 ELSE RenderChunk(src.chunks[1])
    /\ pc = "ready"
    /\ outcome = "pending"
    /\ template = NewTemplate(<<>>)
    /\ parsed = <<>>
    /\ data = <<>>
    /\ restored = <<>>
    /\ calls = <<>>
    /\ builder = NewBuilder
    /\ files = NoFiles
    /\ printed = <<>>
    /\ heap = <<>>

\* parser.parse_content(content, name)
ParseContent ==
    /\ pc = "ready"
    /\ call = "parse_content"
    /\ \E r \in {parse_content(content, name)} :
           /\ outcome' = r.outcome
           /\ template' = r.template
    /\ pc' = "done"
    /\ UNCHANGED <<call, src, content, name, parsed, data, restored,
                 calls, builder, files, printed, heap>>

\* parser._parse_slide(content)
ParseSlide ==
    /\ pc = "ready"
    /\ call = "_parse_slide"
    /\ parsed' = parse_slide(content)
    /\ outcome' = "returned"
    /\ pc' = "done"
    /\ UNCHANGED <<call, src, content, name, template, data, restored,
                 calls, builder, files, printed, heap>>

Next == ParseContent \/ ParseSlide

Spec == Init /\ [][Next]_vars

\* one chunk for _parse_slide
InitSlide ==
    /\ call = "_parse_slide"
    /\ \/ \E c \in TextChunks : src = [front |-> Front("absent", <<>>), chunks |-> <<c>>]
       \/ \E c \in ImageChunks : src = [front |-> Front("absent", <<>>), chunks |-> <<c>>]
    /\ name = <<"Untitled">>
    /\ content = RenderChunk(src.chunks[1])
    /\ pc = "ready"
    /\ outcome = "pending"
    /\ template = NewTemplate(<<>>)
    /\ parsed = <<>>
    /\ data = <<>>
    /\ restored = <<>>
    /\ calls = <<>>
    /\ builder = NewBuilder
    /\ files = NoFiles
    /\ printed = <<>>
    /\ heap = <<>>

SpecSlide == InitSlide /\ [][ParseSlide]_vars

\* one chunk with a directive of a SlideType word for _parse_slide
InitDirective ==
    /\ call = "_parse_slide"
    /\ \E c \in DirectiveChunks : src = [front |-> Front("absent", <<>>), chunks |-> <<c>>]
    /\ name = <<"Untitled">>
    /\ content = RenderChunk(src.chunks[1])
    /\ pc = "ready"
    /\ outcome = "pending"
    /\ template = NewTemplate(<<>>)
    /\ parsed = <<>>
    /\ data = <<>>
    /\ restored = <<>>
    /\ calls = <<>>
    /\ builder = NewBuilder
    /\ files = NoFiles
    /\ printed = <<>>
    /\ heap = <<>>

SpecDirective == InitDirective /\ [][ParseSlide]_vars

\* one chunk of heading, text and blank lines for _parse_slide
InitHeading ==
    /\ call = "_parse_slide"
    /\ \E c \in HeadingChunks : src = [front |-> Front("absent", <<>>), chunks |-> <<c>>]
    /\ name = <<"Untitled">>
    /\ content = RenderHeadingChunk(src.chunks[1])
    /\ pc = "ready"
    /\ outcome = "pending"
    /\ template = NewTemplate(<<>>)
    /\ parsed = <<>>
    /\ data = <<>>
    /\ restored = <<>>
    /\ calls = <<>>
    /\ builder = NewBuilder
    /\ files = NoFiles
    /\ printed = <<>>
    /\ heap = <<>>

SpecHeading == InitHeading /\ [][ParseSlide]_vars

\* a template that is built by hand, slide by slide, then written to a dict
\* and read back: it starts as PresentationTemplate(name)
InitTemplate ==
    /\ call = "from_dict"
    /\ src = [front |-> Front("absent", <<>>), chunks |-> <<>>]
    /\ name \in Names
    /\ content = <<>>
    /\ pc = "building"
    /\ outcome = "pending"
    /\ template = NewTemplate(name)
    /\ parsed = <<>>
    /\ data = <<>>
    /\ restored = <<>>
    /\ calls = <<>>
    /\ builder = NewBuilder
    /\ files = NoFiles
    /\ printed = <<>>
    /\ heap = <<>>

\* template.add_slide(slide), the slide from one of the four factories
AddSlide ==
    /\ pc = "building"
    /\ Len(template.slides) < MaxSlides
    /\ \E slide \in FactorySlides :
           /\ template' = add_slide(template, slide)
           /\ calls' = Append(calls, [op |-> "add_slide", slide |-> slide])
    /\ UNCHANGED <<call, pc, src, content, name, outcome, parsed, data, restored,
                 builder, files, printed, heap>>

\* data = template.to_dict()
ToDict ==
    /\ pc = "building"
    /\ data' = <<to_dict(template)>>
    /\ pc' = "dumped"
    /\ UNCHANGED <<call, src, content, name, outcome, template, parsed, restored,
                 calls, builder, files, printed, heap>>

\* restored = PresentationTemplate.from_dict(data)
FromDict ==
    /\ pc = "dumped"
    /\ \E r \in {from_dict(data[1])} :
           /\ outcome' = r.outcome
           /\ restored' = IF r.outcome = "returned" THEN <<r.template>> ELSE <<>>
    /\ pc' = "done"
    /\ UNCHANGED <<call, src, content, name, template, parsed, data,
                 calls, builder, files, printed, heap>>

\* a builder without a template file, on one of the file systems
InitBuilder ==
    /\ call = "builder"
    /\ src = [front |-> Front("absent", <<>>), chunks |-> <<>>]
    /\ name = <<"Untitled">>
    /\ content = <<>>
    /\ pc = "building"
    /\ outcome = "pending"
    /\ template = NewTemplate(<<>>)
    /\ parsed = <<>>
    /\ data = <<>>
    /\ restored = <<>>
    /\ calls = <<>>
    /\ builder = NewBuilder
    /\ files \in BuilderFiles
    /\ printed = <<>>
    /\ heap = <<>>

\* a call on the builder: the builder after it, and the call in the log with
\* the exception that escaped it
BuilderCall(r, entry) ==
    /\ builder' = r.builder
    /\ calls' = Append(calls, [entry EXCEPT !.raised = r.raised])
    /\ UNCHANGED <<call, pc, src, content, name, outcome, template, parsed, data, restored,
                 files, printed, heap>>

\* builder.add_title_slide(title, subtitle)
AddTitleSlide ==
    \E args \in {<< <<"A">>, <<"s">> >>, << <<"B">>, <<>> >>} :
        /\ Len(calls) < MaxCalls
        /\ BuilderCall(add_title_slide(builder, args[1], args[2]),
                       [op |-> "add_title_slide", title |-> args[1], raised |-> ""])

\* builder.add_content_slide(title, content)
AddContentSlide ==
    \E args \in {<< <<"A">>, << <<"x">>, <<"y">> >> >>, << <<"B">>, <<>> >>} :
        /\ Len(calls) < MaxCalls
        /\ BuilderCall(add_content_slide(builder, args[1], args[2]),
                       [op |-> "add_content_slide", title |-> args[1], raised |-> ""])

\* builder.add_image_slide(title, image_path, caption)
AddImageSlide ==
    \E args \in {<< <<"A">>, <<"c">> >>, << <<"B">>, <<>> >>} :
        /\ Len(calls) < MaxCalls
        /\ BuilderCall(add_image_slide(builder, files, args[1], ImagePath, args[2]),
                       [op |-> "add_image_slide", title |-> args[1], raised |-> ""])

\* builder.add_section_slide(title, description)
AddSectionSlide ==
    \E args \in {<< <<"A">>, <<"x">> >>, << <<"B">>, <<>> >>} :
        /\ Len(calls) < MaxCalls
        /\ BuilderCall(add_section_slide(builder, args[1], args[2]),
                       [op |-> "add_section_slide", title |-> args[1], raised |-> ""])

\* builder.get_slide_count()
GetSlideCount ==
    /\ Len(calls) < MaxCalls
    /\ BuilderCall(Returned(builder),
                   [op |-> "get_slide_count", returned |-> get_slide_count(builder),
                    raised |-> ""])

\* builder.get_slide_titles()
GetSlideTitles ==
    /\ Len(calls) < MaxCalls
    /\ BuilderCall(Returned(builder),
                   [op |-> "get_slide_titles", returned |-> get_slide_titles(builder),
                    raised |-> ""])

NextBuilder ==
    \/ AddTitleSlide
    \/ AddContentSlide
    \/ AddImageSlide
    \/ AddSectionSlide
    \/ GetSlideCount
    \/ GetSlideTitles

SpecBuilder == InitBuilder /\ [][NextBuilder]_vars

\* a fresh builder and a template to replay into it
InitReplay ==
    /\ call = "build_from_template"
    /\ src = [front |-> Front("absent", <<>>), chunks |-> <<>>]
    /\ name = <<"deck">>
    /\ content = <<>>
    /\ pc = "ready"
    /\ outcome = "pending"
    /\ template \in ReplayTemplates
    /\ parsed = <<>>
    /\ data = <<>>
    /\ restored = <<>>
    /\ calls = <<>>
    /\ builder = NewBuilder
    /\ files \in BuilderFiles
    /\ printed = <<>>
    /\ heap = <<>>

\* builder.build_from_template(template)
BuildFromTemplate ==
    /\ pc = "ready"
    /\ call = "build_from_template"
    /\ \E r \in {build_from_template(builder, files, template.slides, <<>>)} :
           /\ builder' = r.builder
           /\ calls' = r.log
           /\ outcome' = IF r.raised = "" THEN "returned" ELSE r.raised
    /\ pc' = "done"
    /\ UNCHANGED <<call, src, content, name, template, parsed, data, restored,
                 files, printed, heap>>

SpecReplay == InitReplay /\ [][BuildFromTemplate]_vars

\* a document without front matter whose chunks are joined by separators of
\* every kind
InitSplit ==
    /\ call = "parse_content"
    /\ \E n \in 1..MaxChunks :
           src \in [front : {Front("absent", <<>>)}, chunks : [1..n -> SplitChunks],
                    seps : [1..(n - 1) -> SeparatorKinds]]
    /\ name = <<"deck">>
    /\ content = JoinWith(src.chunks, src.seps)
    /\ pc = "ready"
    /\ outcome = "pending"
    /\ template = NewTemplate(<<>>)
    /\ parsed = <<>>
    /\ data = <<>>
    /\ restored = <<>>
    /\ calls = <<>>
    /\ builder = NewBuilder
    /\ files = NoFiles
    /\ printed = <<>>
    /\ heap = <<>>

SpecSplit == InitSplit /\ [][ParseContent]_vars

\* a document whose chunks carry directives of every SlideType word
InitTyped ==
    /\ call = "parse_content"
    /\ src \in [front : {Front("absent", <<>>)}, chunks : SeqsUpTo(TypedChunks, MaxChunks),
                typed : {TRUE}]
    /\ name = <<"deck">>
    /\ content = RenderDoc(src)
    /\ pc = "ready"
    /\ outcome = "pending"
    /\ template = NewTemplate(<<>>)
    /\ parsed = <<>>
    /\ data = <<>>
    /\ restored = <<>>
    /\ calls = <<>>
    /\ builder = NewBuilder
    /\ files = NoFiles
    /\ printed = <<>>
    /\ heap = <<>>

SpecTyped == InitTyped /\ [][ParseContent]_vars

\* prez markdown <markdown_file> [--output-name <name>]
InitCli ==
    /\ call = "create_from_markdown"
    /\ src \in [front : Fronts, chunks : SeqsUpTo(CliChunks, MaxChunks),
                output_name : {<<>>, << <<"out">> >>}]
    /\ name = PathStem(MarkdownPath)
    /\ content = RenderDoc(src)
    /\ files \in CliFiles(content)
    /\ MarkdownPath \notin DOMAIN files => src.front.is = "absent" /\ src.chunks = <<>>
    /\ pc = "check"
    /\ outcome = "pending"
    /\ template = NewTemplate(<<>>)
    /\ parsed = <<>>
    /\ data = <<>>
    /\ restored = <<>>
    /\ calls = <<>>
    /\ builder = NewBuilder
    /\ printed = <<>>
    /\ heap = <<>>

\* a stage of the command ended with an exception: the handler prints it and
\* the command returns, or the exception leaves the command
CliRaised(exception) ==
    /\ pc' = "done"
    /\ IF Caught(exception)
       THEN /\ printed' = Append(printed, [text |-> "Error creating presentation: ",
                                           arg |-> exception])
            /\ outcome' = "returned"
       ELSE /\ printed' = printed
            /\ outcome' = exception

\* if not markdown_path.exists(): print and return
CliCheck ==
    /\ pc = "check"
    /\ call = "create_from_markdown"
    /\ IF MarkdownPath \notin DOMAIN files
       THEN /\ printed' = Append(printed, [text |-> "Error: Markdown file not found: ",
                                           arg |-> "markdown_path"])
            /\ outcome' = "returned"
            /\ pc' = "done"
       ELSE /\ printed' = Append(printed, [text |-> "Creating presentation from markdown: ",
                                           arg |-> "markdown_path"])
            /\ outcome' = outcome
            /\ pc' = "parse"
    /\ UNCHANGED <<call, src, content, name, template, parsed, data, restored,
                 calls, builder, files, heap>>

\* from_markdown, first half: cls(template_path) and
\* create_presentation_from_markdown(markdown_path), which is parse_file
CliParse ==
    /\ pc = "parse"
    /\ \E r \in {IF MarkdownPath \in DOMAIN files
                  THEN parse_content(files[MarkdownPath].text, PathStem(MarkdownPath))
                  ELSE [outcome |-> "FileNotFoundError", template |-> template]} :
           /\ template' = r.template
           /\ calls' = Append(calls, [op |-> "parse_file", raised |->
                                        IF r.outcome = "returned" THEN "" ELSE r.outcome])
           /\ IF r.outcome = "returned"
              THEN pc' = "build" /\ UNCHANGED <<printed, outcome>>
              ELSE CliRaised(r.outcome)
    /\ builder' = NewBuilder
    /\ UNCHANGED <<call, src, content, name, parsed, data, restored, files, heap>>

\* from_markdown, second half: builder.build_from_template(template)
CliBuild ==
    /\ pc = "build"
    /\ \E r \in {build_from_template(builder, files, template.slides, <<>>)} :
           /\ builder' = r.builder
           /\ calls' = Append(calls, [op |-> "build_from_template", raised |-> r.raised])
           /\ IF r.raised = ""
              THEN pc' = "save" /\ UNCHANGED <<printed, outcome>>
              ELSE CliRaised(r.raised)
    /\ UNCHANGED <<call, src, content, name, template, parsed, data, restored, files, heap>>

\* builder.save(output_path) and the two prints after it
CliSave ==
    /\ pc = "save"
    /\ \E r \in {save(builder, files, OutputPath(MarkdownPath, src.output_name))} :
           /\ files' = r.files
           /\ calls' = Append(calls, [op |-> "save", raised |-> r.raised])
           /\ IF r.raised = ""
              THEN /\ printed' = printed \o
                         << [text |-> "Presentation created: ", arg |-> "output_path"],
                            [text |-> "Slides created: ", arg |-> get_slide_count(builder)] >>
                   /\ outcome' = "returned"
                   /\ pc' = "done"
              ELSE CliRaised(r.raised)
    /\ UNCHANGED <<call, src, content, name, template, parsed, data, restored,
                 builder, heap>>

NextCli == CliCheck \/ CliParse \/ CliBuild \/ CliSave

SpecCli == InitCli /\ [][NextCli]_vars

\* the caller makes up to two slides and a list of them, and makes the
\* template with that list or without one
InitShare ==
    /\ call = "share"
    /\ \E slides \in SeqsUpTo(CallerSlides, 2), passed \in BOOLEAN :
           \E r \in {HeapFactorySlides(<<>>, slides, <<>>)} :
               \E t \in {HeapPresentationTemplate(
                              Append(r.heap, HeapList(r.refs)), <<"deck">>,
                              IF passed THEN <<Ref(Len(r.heap) + 1)>> ELSE <<>>)} :
                   /\ src = [slides_arg |-> Ref(Len(r.heap) + 1), passed |-> passed]
                   /\ heap = t.heap
                   /\ template = t.ref
    /\ name = <<"deck">>
    /\ content = <<>>
    /\ pc = "building"
    /\ outcome = "pending"
    /\ parsed = <<>>
    /\ data = <<>>
    /\ restored = <<>>
    /\ calls = <<>>
    /\ builder = NewBuilder
    /\ files = NoFiles
    /\ printed = <<>>

\* the call is written to the log; everything but the objects stays
ShareCall(op, by) ==
    /\ calls' = Append(calls, [op |-> op, by |-> by])
    /\ UNCHANGED <<call, pc, src, content, name, outcome, template, parsed,
                 builder, files, printed>>

\* template.add_slide(slide) with a slide the caller has just made
ShareAddSlide ==
    /\ call = "share"
    /\ Len(calls) < MaxOps
    /\ \E slide \in CallerSlides :
           \E r \in {HeapFactorySlide(heap, slide)} :
               heap' = HeapAddSlide(r.heap, template, r.ref)
    /\ ShareCall("add_slide", "template")
    /\ UNCHANGED <<data, restored>>

\* data = template.to_dict()
ShareToDict ==
    /\ call = "share"
    /\ Len(calls) < MaxOps
    /\ data = <<>>
    /\ \E r \in {HeapToDict(heap, template)} :
           /\ heap' = r.heap
           /\ data' = <<r.ref>>
    /\ ShareCall("to_dict", "template")
    /\ UNCHANGED restored

\* restored = PresentationTemplate.from_dict(data)
ShareFromDict ==
    /\ call = "share"
    /\ Len(calls) < MaxOps
    /\ data # <<>> /\ restored = <<>>
    /\ \E r \in {HeapFromDict(heap, data[1])} :
           /\ heap' = r.heap
           /\ restored' = <<r.ref>>
    /\ ShareCall("from_dict", "template")
    /\ UNCHANGED data

\* the lists and dicts the caller holds: the list it made for the constructor,
\* the dict it got from to_dict, and the lists and dicts inside them
CallerHolds ==
    LET Inside(o) ==
            IF o.kind = "list" THEN {o.items[i].ref : i \in 1..Len(o.items)} \ {0}
            ELSE IF o.kind = "dict" THEN {o.items[k].ref : k \in DOMAIN o.items} \ {0}
            ELSE {}
        Step(S) == S \cup UNION {Inside(heap[a]) : a \in S}
        all == Step(Step(Step(Step({src.slides_arg.ref}
                                   \cup {data[i].ref : i \in 1..Len(data)}))))
    IN  {a \in all : heap[a].kind \in {"list", "dict"}}

\* the caller appends to a list it holds: lst.append(lst[0])
CallerAppend ==
    /\ call = "share"
    /\ Len(calls) < MaxOps
    /\ \E a \in CallerHolds :
           /\ heap[a].kind = "list" /\ heap[a].items # <<>>
           /\ heap' = HeapAppend(heap, a, heap[a].items[1])
    /\ ShareCall("list.append", "caller")
    /\ UNCHANGED <<data, restored>>

\* the caller removes the last item of a list it holds: lst.pop()
CallerPop ==
    /\ call = "share"
    /\ Len(calls) < MaxOps
    /\ \E a \in CallerHolds :
           /\ heap[a].kind = "list" /\ heap[a].items # <<>>
           /\ heap' = [heap EXCEPT ![a].items = SubSeq(@, 1, Len(@) - 1)]
    /\ ShareCall("list.pop", "caller")
    /\ UNCHANGED <<data, restored>>

\* the caller sets the name or a title in a dict it holds: d[key] = "Z"
CallerSetItem ==
    /\ call = "share"
    /\ Len(calls) < MaxOps
    /\ \E a \in CallerHolds :
           /\ heap[a].kind = "dict"
           /\ \E key \in DOMAIN heap[a].items \cap {"name", "title"} :
                  heap' = [heap EXCEPT ![a].items[key] = Imm(<<"Z">>)]
    /\ ShareCall("dict.__setitem__", "caller")
    /\ UNCHANGED <<data, restored>>

NextShare ==
    \/ ShareAddSlide
    \/ ShareToDict
    \/ ShareFromDict
    \/ CallerAppend
    \/ CallerPop
    \/ CallerSetItem

SpecShare == InitShare /\ [][NextShare]_vars

NextTemplate == AddSlide \/ ToDict \/ FromDict

SpecTemplate == InitTemplate /\ [][NextTemplate]_vars

----------------------------------------------------------------------------
(* What the written document says, read off src *)

Done(method) == pc = "done" /\ call = method

\* the chunk has a title line
Titled(c) == c.title # <<>>

\* the chunk is empty once stripped
Blank(c) ==
    /\ c.title = <<>>
    /\ c.dir = ""
    /\ \A i \in 1..Len(c.body) : \A j \in 1..Len(c.body[i]) : c.body[i][j] \in {" ", "\n"}

\* there is no front matter, or its block is a YAML mapping
FrontParses(f) == f.is \in {"absent", "mapping"}

\* the document starts with its first chunk, or with two separators that have
\* nothing between them (the head of test_parse_empty_slide_content)
NoFrontMatter(f) == f.is \in {"absent", "empty"}

\* the block is present and is no YAML mapping
FrontMalformed(f) == f.is \in {"syntax", "scalar", "list"}

HasTitleKey(f) == \E i \in 1..Len(f.lines) : f.lines[i][1] = "title"

TitleValue(f) ==
    LET i == CHOOSE k \in 1..Len(f.lines) : f.lines[k][1] = "title"
    IN  SubSeq(f.lines[i], 4, Len(f.lines[i]))

ChunkTitles(cs) == [i \in 1..Len(cs) |-> cs[i].title]

SlideTitles(t) == [i \in 1..Len(t.slides) |-> t.slides[i].params.title]

----------------------------------------------------------------------------
(* The claims about parse_content *)

\* C1: a document of N chunks that each hold a title line gives exactly N
\* slides, and slide i carries the title of chunk i.
C1_SlidesInSourceOrder ==
    (/\ Done("parse_content")
     /\ FrontParses(src.front)
     /\ \A i \in 1..Len(src.chunks) : Titled(src.chunks[i]))
    => /\ outcome = "returned"
       /\ Len(template.slides) = Len(src.chunks)
       /\ \A i \in 1..Len(src.chunks) :
              template.slides[i].params.title = src.chunks[i].title

\* C1 happens: three titled chunks, the first two with different titles, parsed
C1_Witness ==
    /\ Done("parse_content")
    /\ Len(src.chunks) = 3
    /\ \A i \in 1..3 : Titled(src.chunks[i])
    /\ src.chunks[1].title # src.chunks[2].title
    /\ SlideTitles(template) = ChunkTitles(src.chunks)

\* C2: the template is named by the title key of the front matter when the
\* block is a mapping that has one, by the fallback name otherwise, and the
\* block adds no slide: there are as many slides as chunks with a title line.
C2_NameFromFrontMatter ==
    (Done("parse_content") /\ FrontParses(src.front))
    => /\ outcome = "returned"
       /\ template.name = IF HasTitleKey(src.front) THEN TitleValue(src.front) ELSE name
       /\ Len(template.slides) = Cardinality({i \in 1..Len(src.chunks) : Titled(src.chunks[i])})

\* C2 happens: a block with a title key before a chunk, named by the key
C2_Witness ==
    /\ Done("parse_content")
    /\ HasTitleKey(src.front)
    /\ template.name = <<"X">>
    /\ name # <<"X">>
    /\ Len(template.slides) = 1

\* C3: a front matter block that is no YAML mapping (a syntax error, a scalar,
\* a list) makes parse_content raise ValueError, and nothing else.
C3_MalformedRaisesValueError ==
    (Done("parse_content") /\ FrontMalformed(src.front)) => outcome = "ValueError"

\* C4: _parse_slide gives None, without an error, for a chunk that has no title
\* line; parse_content leaves such a chunk out and keeps the slides of the
\* other chunks in their order.
C4_UntitledChunkSkipped ==
    /\ (Done("_parse_slide") /\ ~Titled(src.chunks[1]))
       => outcome = "returned" /\ parsed = <<>>
    /\ (Done("parse_content") /\ FrontParses(src.front))
       => /\ outcome = "returned"
          /\ SlideTitles(template) = ChunkTitles(SelectSeq(src.chunks, Titled))

\* C4 happens: a chunk with text and no title line between two titled chunks
C4_Witness ==
    /\ Done("parse_content")
    /\ Len(src.chunks) = 3
    /\ Titled(src.chunks[1]) /\ Titled(src.chunks[3])
    /\ ~Titled(src.chunks[2]) /\ ~Blank(src.chunks[2])
    /\ Len(template.slides) = 2

\* C5: chunks that are empty once stripped add no slide and raise nothing: a
\* document of titled and empty chunks, stray separators at its head included,
\* has one slide per titled chunk, and a document with nothing but empty chunks
\* gives a template of zero slides that bears the fallback name.
C5_EmptyChunksDiscarded ==
    (/\ Done("parse_content")
     /\ NoFrontMatter(src.front)
     /\ \A i \in 1..Len(src.chunks) : Titled(src.chunks[i]) \/ Blank(src.chunks[i]))
    => /\ outcome = "returned"
       /\ Len(template.slides) = Cardinality({i \in 1..Len(src.chunks) : Titled(src.chunks[i])})
       /\ (\A i \in 1..Len(src.chunks) : Blank(src.chunks[i])) => template = NewTemplate(name)

----------------------------------------------------------------------------
(* What the written chunk says, read off src *)

\* the chunk handed to _parse_slide
TheChunk == src.chunks[1]

\* the line starts with a bullet marker: -, * or + and a space
Marked(l) == Len(l) >= 2 /\ l[1] \in {"-", "*", "+"} /\ l[2] = " "

\* the body lines that do not start with #
KeptLines(body) == SelectSeq(body, LAMBDA l : l[1] # "#")

\* one item per kept line: a marked line without its two-character marker,
\* any other line as it is
ItemsMarkerOff(body) ==
    LET Items(k) == [i \in 1..Len(k) |-> IF Marked(k[i]) THEN Tail2(k[i], 3) ELSE k[i]]
    IN  Items(KeptLines(body))

\* one item per kept line: a marked line without its marker and without the
\* whitespace around what is left, any other line as it is
ItemsMarkerOffStripped(body) ==
    LET Items(k) ==
            [i \in 1..Len(k) |-> IF Marked(k[i]) THEN Strip(Tail2(k[i], 3)) ELSE k[i]]
    IN  Items(KeptLines(body))

\* the directive of the chunk: none or content, title in either case, image
\* in either case, a word that is no SlideType value
ContentChunk(c) == c.dir \in {"", "content"}
TitleChunk(c) == c.dir \in {"title", "Title"}
ImageTyped(c) == c.dir \in {"image", "IMAGE"}
UnknownDirective(c) == c.dir = "foo"

\* the same chunk written without its directive line
WithoutDirective(c) == [c EXCEPT !.dir = ""]

\* the lines of an image chunk that name the image: markup and path lines
Naming(lines) == SelectSeq(lines, LAMBDA l : l.kind \in {"markup", "path"})

\* the caption fragments of an image chunk: the alt text of markup that has
\* one, and the text lines
RECURSIVE Fragments(_)
Fragments(lines) ==
    LET Of(l) ==
            IF l.kind = "markup" /\ l.alt # <<>> THEN <<l.alt>>
            ELSE IF l.kind = "text" THEN <<l.target>>
            ELSE <<>>
    IN  IF lines = <<>> THEN <<>> ELSE Of(Head(lines)) \o Fragments(Tail(lines))

----------------------------------------------------------------------------
(* The claims about _parse_slide *)

\* C6 as it is stated: for a content chunk the content list has one item per
\* body line that does not start with #, in body order, duplicates kept; a
\* line that starts with "- ", "* " or "+ " loses exactly these two characters,
\* any other line is kept verbatim.
C6_MarkerOnlyRemoved ==
    (Done("_parse_slide") /\ ContentChunk(TheChunk))
    => parsed = <<content_slide(TheChunk.title, ItemsMarkerOff(TheChunk.body))>>

\* C6, amended: as above, but a marked line loses its marker and the
\* whitespace around what is left of it.
C6_BulletItems ==
    (Done("_parse_slide") /\ ContentChunk(TheChunk))
    => /\ outcome = "returned"
       /\ parsed = <<content_slide(TheChunk.title, ItemsMarkerOffStripped(TheChunk.body))>>

\* C6 happens: a bullet with two spaces after its marker, a heading line and
\* the same bullet again give the item twice, without the leading space
C6_Witness ==
    /\ Done("_parse_slide")
    /\ ContentChunk(TheChunk)
    /\ TheChunk.body = << <<"-", " ", " ", "y">>, <<"#", "#", " ", "X">>, <<"-", " ", " ", "y">> >>
    /\ parsed[1].params.content = << <<"y">>, <<"y">> >>

\* C7: for a chunk whose directive says title, in either case, the slide is a
\* title slide; its subtitle is the first body line, the empty string when
\* there is no body line, and the later body lines are not in the slide.
C7_TitleSubtitle ==
    (Done("_parse_slide") /\ TitleChunk(TheChunk))
    => /\ outcome = "returned"
       /\ parsed = <<title_slide(TheChunk.title,
                                 IF TheChunk.body = <<>> THEN <<>> ELSE TheChunk.body[1])>>

\* C7 happens: a title chunk of three body lines, the first unlike the others
C7_Witness ==
    /\ Done("_parse_slide")
    /\ TitleChunk(TheChunk)
    /\ Len(TheChunk.body) = 3
    /\ TheChunk.body[1] # TheChunk.body[2] /\ TheChunk.body[1] # TheChunk.body[3]
    /\ parsed[1].slide_type = "TITLE"
    /\ parsed[1].params.subtitle = TheChunk.body[1]

\* C8: for an image chunk the image path is the target of the last body line
\* that holds markup or, having none, ends in a lower-case image suffix (the
\* whole line is the path then), placeholder.jpg when there is no such line;
\* the caption is, in body order and joined by newlines, the non-empty alt
\* texts and the remaining non-empty lines that do not start with "!".
C8_ImageSlide ==
    (Done("_parse_slide") /\ ImageTyped(TheChunk))
    => LET Expected(naming) ==
               image_slide(TheChunk.title,
                           IF naming = <<>> THEN Path(<<"placeholder", ".jpg">>)
                           ELSE Path(naming[Len(naming)].target),
                           JoinLines(Fragments(TheChunk.lines)))
       IN  outcome = "returned" /\ parsed = <<Expected(Naming(TheChunk.lines))>>

\* C8 happens: markup with an alt text, a caption line and a path line
C8_Witness ==
    /\ Done("_parse_slide")
    /\ ImageTyped(TheChunk)
    /\ Len(TheChunk.lines) = 3
    /\ TheChunk.lines[1].kind = "markup" /\ TheChunk.lines[1].alt # <<>>
    /\ TheChunk.lines[2].kind = "text"
    /\ TheChunk.lines[3].kind = "path"
    /\ parsed[1].params.image_path = Path(TheChunk.lines[3].target)
    /\ parsed[1].params.caption =
           TheChunk.lines[1].alt \o <<NL>> \o TheChunk.lines[2].target

\* C9 as it is stated: a directive whose word is no SlideType value raises
\* nothing, and the slide is the one the chunk gives without the directive
\* line, whether that line stands before or after the title line.
C9_UnknownAsIfAbsent ==
    (Done("_parse_slide") /\ UnknownDirective(TheChunk))
    => /\ outcome = "returned"
       /\ parsed = parse_slide(RenderChunk(WithoutDirective(TheChunk)))

\* C9, amended: such a directive raises nothing and the slide is a content
\* slide with the title of the chunk; the directive text is not removed, so
\* the slide is the one the chunk gives without the directive line when that
\* line stands before the title line, and has the directive text as one more
\* content item, ahead of the others, when it follows the title line.
C9_UnknownDirectiveKept ==
    (Done("_parse_slide") /\ UnknownDirective(TheChunk))
    => LET Kept(plain) ==
               IF TheChunk.place = "before" THEN parsed = plain
               ELSE parsed = <<content_slide(TheChunk.title,
                                 <<DirectiveLine(TheChunk.dir)>> \o plain[1].params.content)>>
       IN  /\ outcome = "returned"
           /\ Len(parsed) = 1
           /\ parsed[1].slide_type = "CONTENT"
           /\ parsed[1].params.title = TheChunk.title
           /\ Kept(parse_slide(RenderChunk(WithoutDirective(TheChunk))))

\* C9 happens: an unknown directive after the title line, then two bullets
C9_Witness ==
    /\ Done("_parse_slide")
    /\ UnknownDirective(TheChunk)
    /\ TheChunk.place = "after"
    /\ Len(TheChunk.body) = 2
    /\ Len(parsed[1].params.content) = 3
    /\ parsed[1].params.content[1] = DirectiveLine("foo")

----------------------------------------------------------------------------
(* The claims about the template data model *)

\* the value string of each slide type a factory gives
ValueString(member) ==
    CASE member = "TITLE" -> "title"
      [] member = "CONTENT" -> "content"
      [] member = "IMAGE" -> "image"
      [] member = "SECTION" -> "section"

\* C10: for a template built from the four factories, the zero-slide template
\* included, to_dict gives {name, slides} with one {type, params} per slide in
\* order, type being the value string of the slide type, and from_dict of that
\* dict gives a template of the same name and the same sequence of
\* (slide_type, params).
C10_DictRoundTrip ==
    /\ (call = "from_dict" /\ pc \in {"dumped", "done"})
       => /\ DOMAIN data[1] = {"name", "slides"}
          /\ data[1].name = template.name
          /\ Len(data[1].slides) = Len(template.slides)
          /\ \A i \in 1..Len(template.slides) :
                 /\ DOMAIN data[1].slides[i] = {"type", "params"}
                 /\ data[1].slides[i].type = ValueString(template.slides[i].slide_type)
                 /\ data[1].slides[i].params = template.slides[i].params
    /\ Done("from_dict")
       => /\ outcome = "returned"
          /\ Len(restored) = 1
          /\ restored[1].name = template.name
          /\ restored[1].slides = template.slides

\* C10 happens: a template with a slide of each factory has been read back
C10_Witness ==
    /\ Done("from_dict")
    /\ Len(template.slides) = 4
    /\ {template.slides[i].slide_type : i \in 1..4} = {"TITLE", "CONTENT", "IMAGE", "SECTION"}
    /\ restored = <<template>>

\* C11: whatever add_slide calls were made on a template that was created
\* without slides, its slides are the arguments of the calls in call order and its
\* name is the one it was created with; every call adds one entry at the end
\* and leaves the earlier entries alone, also when the slide is there already.
C11_AddSlideAppends ==
    call = "from_dict"
    => /\ template.name = name
       /\ template.slides = [i \in 1..Len(calls) |-> calls[i].slide]

\* C11 happens: three calls, the first slide added again as the third
C11_Witness ==
    /\ call = "from_dict" /\ pc = "building"
    /\ Len(calls) = 3
    /\ calls[1].slide = calls[3].slide /\ calls[1].slide # calls[2].slide
    /\ template.slides = <<calls[1].slide, calls[2].slide, calls[1].slide>>

----------------------------------------------------------------------------
(* The claims about the builder *)

\* the add_* calls of the log, in call order
IsAdd(c) ==
    c.op \in {"add_title_slide", "add_content_slide", "add_image_slide", "add_section_slide"}
AddCalls == SelectSeq(calls, IsAdd)

\* C12: on a builder without a template file, after n add_* calls the record
\* has n slides and the document has n slides, whatever the image path of an
\* image slide holds.
C12_RecordMatchesDocument ==
    call = "builder"
    => /\ Len(builder.slides) = Len(AddCalls)
       /\ get_slide_count(builder) = Len(AddCalls)

\* C15: get_slide_titles gives get_slide_count() entries, and entry i is the
\* title that was passed to the i-th add_* call.
C15_TitlesAsPassed ==
    (call = "builder" /\ calls # <<>> /\ calls[Len(calls)].op = "get_slide_titles")
    => /\ Len(calls[Len(calls)].returned) = get_slide_count(builder)
       /\ calls[Len(calls)].returned = [i \in 1..Len(AddCalls) |-> AddCalls[i].title]

\* the add_* call a slide template stands for: the call of its type, or
\* add_content_slide for a type the builder has no branch for, with '' /
\* placeholder.jpg / [] (and "Untitled") for a parameter that is missing
ExpectedCall(st) ==
    LET Get(key, default) == IF key \in DOMAIN st.params THEN st.params[key] ELSE default
    IN  CASE st.slide_type = "TITLE" ->
               [op |-> "add_title_slide", title |-> Get("title", <<>>),
                subtitle |-> Get("subtitle", <<>>), raised |-> ""]
          [] st.slide_type = "CONTENT" ->
               [op |-> "add_content_slide", title |-> Get("title", <<>>),
                content |-> Get("content", <<>>), raised |-> ""]
          [] st.slide_type = "IMAGE" ->
               [op |-> "add_image_slide", title |-> Get("title", <<>>),
                image_path |-> Get("image_path", [path |-> <<"placeholder", ".jpg">>]),
                caption |-> Get("caption", <<>>), raised |-> ""]
          [] st.slide_type = "SECTION" ->
               [op |-> "add_section_slide", title |-> Get("title", <<>>),
                description |-> Get("description", <<>>), raised |-> ""]
          [] OTHER ->
               [op |-> "add_content_slide", title |-> Get("title", <<"Untitled">>),
                content |-> Get("content", <<>>), raised |-> ""]

\* C13: build_from_template returns, having made one add_* call per slide
\* template, in template order, each the call its slide template stands for,
\* and the record and the document have one slide per slide template.
C13_ReplaysEverySlide ==
    Done("build_from_template")
    => /\ outcome = "returned"
       /\ calls = [i \in 1..Len(template.slides) |-> ExpectedCall(template.slides[i])]
       /\ Len(builder.slides) = Len(template.slides)
       /\ Len(builder.presentation) = Len(template.slides)

\* an output file was written
OutputWritten == \E p \in DOMAIN files : files[p].kind = "pptx"

\* the output directory was created
OutputDirCreated ==
    Path(<<"outputs">>) \in DOMAIN files /\ files[Path(<<"outputs">>)].kind = "dir"

\* the markdown file is missing
MarkdownMissing == MarkdownPath \notin DOMAIN files

\* the document has an image slide and the file of its picture is no image
PictureUnreadable ==
    /\ ImagePath \in DOMAIN files /\ files[ImagePath].kind = "text"
    /\ \E i \in 1..Len(src.chunks) : src.chunks[i].dir = "image"

\* the last thing printed is a failure message
FailurePrinted ==
    /\ printed # <<>>
    /\ printed[Len(printed)].text \in {"Error: Markdown file not found: ",
                                       "Error creating presentation: "}

\* C14: in create_from_markdown, save is attempted only after parse_file and
\* build_from_template have both returned; when the markdown file is missing,
\* the front matter is malformed or a slide cannot be built, the command ends
\* with no output file written and no output directory created, prints the
\* failure, and lets no exception out.
C14_SaveOnlyAfterBuild ==
    call = "create_from_markdown"
    => /\ outcome \in {"pending", "returned"}
       /\ (OutputWritten \/ OutputDirCreated \/ \E i \in 1..Len(calls) : calls[i].op = "save")
          => /\ Len(calls) = 3
             /\ calls[1] = [op |-> "parse_file", raised |-> ""]
             /\ calls[2] = [op |-> "build_from_template", raised |-> ""]
             /\ calls[3].op = "save"
       /\ (pc = "done" /\ (MarkdownMissing \/ FrontMalformed(src.front) \/ PictureUnreadable))
          => /\ ~OutputWritten /\ ~OutputDirCreated
             /\ \A i \in 1..Len(calls) : calls[i].op # "save"
             /\ FailurePrinted
             /\ outcome = "returned"

\* the command ended because the picture of an image slide could not be read,
\* after the parse had returned
C14_Witness ==
    /\ Done("create_from_markdown")
    /\ PictureUnreadable
    /\ calls = << [op |-> "parse_file", raised |-> ""],
                  [op |-> "build_from_template", raised |-> "OSError"] >>
    /\ FailurePrinted /\ ~OutputWritten /\ ~OutputDirCreated

\* the titles of the chunks that start a slide when the separators of the
\* kinds in splitting end one
SegmentTitles(splitting) ==
    LET starts == SelectSeq([i \in 1..Len(src.chunks) |-> i],
                            LAMBDA j : j = 1 \/ src.seps[j - 1] \in splitting)
    IN  [k \in 1..Len(starts) |-> src.chunks[starts[k]].title]

\* C16 as stated: only a --- line between blank lines ends a slide, a --- line
\* with a non-blank line directly above or below it does not.
C16_OnlyBetweenBlankLines ==
    (/\ Done("parse_content") /\ "seps" \in DOMAIN src
     /\ \A i \in 1..Len(src.seps) : src.seps[i] \in {"blank", "tight", "above", "below"})
    => SlideTitles(template) = SegmentTitles({"blank"})

\* C16: every line that is --- with nothing but whitespace after it, and that
\* has a line above and below it, ends a slide, with or without blank lines
\* around it; four hyphens and --- after a space end none, and the chunks on
\* both sides of them are one slide with the first chunk's title.
C16_EveryRuleLine ==
    (Done("parse_content") /\ "seps" \in DOMAIN src)
    => /\ outcome = "returned"
       /\ SlideTitles(template)
             = SegmentTitles({"blank", "tight", "above", "below", "trailing"})

\* three chunks, the first two with --- directly between their lines, the
\* last after four hyphens: two slides
C16_Witness ==
    /\ Done("parse_content") /\ "seps" \in DOMAIN src
    /\ src.seps = <<"tight", "long">>
    /\ src.chunks[1].title # src.chunks[2].title
    /\ SlideTitles(template) = <<src.chunks[1].title, src.chunks[2].title>>

\* the slide of a chunk's title line and body lines under a slide type: the
\* first body line as subtitle, the body lines joined as description, or the
\* body lines without their bullet markers as items
SlideOfLines(type, title, body) ==
    CASE type = "TITLE" -> title_slide(title, IF body = <<>> THEN <<>> ELSE body[1])
      [] type = "SECTION" -> section_slide(title, JoinLines(body))
      [] OTHER -> content_slide(title, BulletPoints(body))

\* C17: a chunk with a directive of a SlideType word, in any case, gives the
\* slide that its title line and body lines give under that type: only the
\* directive text goes, wherever it stands, and the lines stay as they are.
C17_OnlyDirectiveRemoved ==
    (Done("_parse_slide") /\ TheChunk \in DirectiveChunks)
    => parsed = <<SlideOfLines(SlideTypeOf(Lower(TheChunk.dir)), TheChunk.title,
                               TheChunk.body)>>

\* the lines of the chunk, stripped
StrippedLines == [i \in 1..Len(TheChunk.lines) |-> Strip(TheChunk.lines[i])]

\* the lines that start with #
HashLines == {i \in 1..Len(StrippedLines) : StartsWith(StrippedLines[i], <<"#">>)}

\* the text of the first line that starts with #
FirstHashText == Strip(LStripHash(StrippedLines[MinOf(HashLines)]))

\* the non-blank lines after the first line that starts with #
LinesAfterTitle ==
    SelectSeq(Tail2(StrippedLines, MinOf(HashLines) + 1), LAMBDA l : l # <<>>)

\* the slide has the first # line as its title and the lines after it as its
\* body: joined in a section slide, as items in a content slide
SlideOfFirstHash ==
    /\ parsed # <<>>
    /\ parsed[1].params.title = FirstHashText
    /\ TheChunk.dir = "section" => parsed[1].params.description = JoinLines(LinesAfterTitle)
    /\ TheChunk.dir = "" => parsed[1].params.content = BulletPoints(LinesAfterTitle)

\* C18 as stated: a chunk gives a slide exactly when one of its lines starts
\* with #.
C18_SlideIffHashLine ==
    (Done("_parse_slide") /\ TheChunk \in HeadingChunks)
    => IF HashLines # {} THEN SlideOfFirstHash ELSE parsed = <<>>

\* C18: a chunk gives a slide exactly when its first line that starts with #
\* has text after its markers; that text is the title, the lines before it
\* are left out and every non-blank line after it, later # lines too, is a
\* body line.
C18_SlideIffTitleText ==
    (Done("_parse_slide") /\ TheChunk \in HeadingChunks)
    => IF HashLines # {} /\ FirstHashText # <<>> THEN SlideOfFirstHash ELSE parsed = <<>>

\* a section chunk with a plain line, a heading, and a second heading: the
\* second heading is in the description and the plain line is not
C18_Witness ==
    /\ Done("_parse_slide")
    /\ TheChunk = [dir |-> "section",
                   lines |-> << <<"x">>, <<"#", "#", " ", "B", " ">>, <<"#", " ", "A">> >>]
    /\ parsed = <<section_slide(<<"B">>, <<"#", " ", "A">>)>>

\* the body lines as items: a bullet marker and the whitespace after it go
BulletItems(body) ==
    [i \in 1..Len(body) |-> IF Marked(body[i]) THEN Strip(Tail2(body[i], 3)) ELSE body[i]]

\* C19: every slide of a parsed document has one of the types title, content,
\* image and section; a chunk with the comparison directive gives a content
\* slide with the chunk's title and its body lines as items, markers off, and
\* the directive is not among them.
C19_NeverComparison ==
    (Done("parse_content") /\ "typed" \in DOMAIN src)
    => /\ outcome = "returned"
       /\ Len(template.slides) = Len(src.chunks)
       /\ \A i \in 1..Len(template.slides) :
              /\ template.slides[i].slide_type \in {"TITLE", "CONTENT", "IMAGE", "SECTION"}
              /\ Lower(src.chunks[i].dir) = "comparison"
                 => template.slides[i]
                      = content_slide(src.chunks[i].title, BulletItems(src.chunks[i].body))

\* a document with a comparison chunk of four body lines between two other
\* chunks, parsed: its slide is a content slide of four items
C19_Witness ==
    /\ Done("parse_content") /\ "typed" \in DOMAIN src
    /\ Len(src.chunks) = 3
    /\ src.chunks[2].dir = "comparison" /\ Len(src.chunks[2].body) = 4
    /\ template.slides[2]
         = content_slide(<<"A">>, << <<"x">>, <<"y">>, <<"c">>, <<"s">> >>)

----------------------------------------------------------------------------
(* The claim about shared state *)

\* the step is a change the caller makes to a list or a dict it holds
CallerStep ==
    /\ call = "share"
    /\ Len(calls') = Len(calls) + 1
    /\ calls'[Len(calls')].by = "caller"

\* C20: when the caller changes the list it passed to the constructor, the
\* structure it got from to_dict or the dict it passed to from_dict, the name,
\* the slide sequence and the params of every slide stay as they were, in the
\* template and in the template that from_dict made.
C20_NoSharedState ==
    [][CallerStep
       => /\ ValueIn(heap', template') = ValueIn(heap, template)
          /\ restored # <<>> => ValueIn(heap', restored'[1]) = ValueIn(heap, restored[1])]_vars

====
